---- MODULE Spec2Model ----
(***************************************************************************)
(* Accessibility report manager: the report store (ReportStorage), the     *)
(* portable JSON document and the handlers of App.svelte that change the   *)
(* current report.                                                         *)
(*                                                                         *)
(* Objects are functions from the property names they own to values, so    *)
(* that the object spread {...a, ...b} and JSON.stringify (which drops     *)
(* what is undefined) are what they are in the source.  A property that    *)
(* holds undefined reads the same as a missing one everywhere in the       *)
(* program; the model builds the object without it.                        *)
(***************************************************************************)
EXTENDS Integers, Sequences, FiniteSets, TLC

\* ------------------------------------------------------------------ bounds
MaxTime == 1
MaxUuid == 4
MaxSteps == 6
NumFiles == 2

\* ------------------------------------------------------------ input domains
\* page names a form can submit; the axe results page submits its page title
\* as typed, the empty string included
Pages == {"", "home"}
\* the free-text fields of an issue, which no operation of the store reads
Titles == {"alt"}
Names == {"audit"}
MergedTitles == {"merged"}
IssueKeys == <<"id", "page", "title", "createdAt", "updatedAt", "jiraTicketUrl", "jiraTicketKey">>
ReportKeys == <<"id", "name", "pages", "issues", "createdAt", "updatedAt", "jiraConfig">>
ConfigKeys == <<"baseUrl", "apiToken", "userEmail">>

Times == 0..MaxTime
Uuids == 1..MaxUuid
Slots == 1..NumFiles

undefined == [type |-> "undefined"]
null == [type |-> "null"]
NaN == -1
NoFile == <<>>

\* --------------------------------------------------------- language helpers
Range(s) == {s[k] : k \in 1..Len(s)}

\* {...a, ...b}
Spread(a, b) ==
    [k \in (DOMAIN a) \cup (DOMAIN b) |-> IF k \in DOMAIN b THEN b[k] ELSE a[k]]

\* obj.k of an object-valued property, undefined when obj is undefined or
\* does not own k
Get(obj, k) == IF obj # undefined /\ k \in DOMAIN obj THEN obj[k] ELSE undefined

\* truthiness of a string-valued property: owned and not the empty string
Truthy(obj, k) == obj # undefined /\ k \in DOMAIN obj /\ obj[k] # ""

\* crypto.randomUUID(): the n-th identifier drawn
randomUUID(n) == "uuid-" \o ToString(n)

\* the milliseconds of a second, a minute, an hour and a day
MsPerSecond == 1000
MsPerMinute == 60 * MsPerSecond
MsPerHour == 60 * MsPerMinute
MsPerDay == 24 * MsPerHour

\* a number in two and in three digits
Pad2(n) == IF n < 10 THEN "0" \o ToString(n) ELSE ToString(n)
Pad3(n) == IF n < 100 THEN "0" \o Pad2(n) ELSE ToString(n)

\* the text of the instant ms, an instant of January 1970
formatISO(ms) ==
    "1970-01-" \o Pad2((ms \div MsPerDay) + 1) \o "T"
        \o Pad2((ms % MsPerDay) \div MsPerHour) \o ":"
        \o Pad2((ms % MsPerHour) \div MsPerMinute) \o ":"
        \o Pad2((ms % MsPerMinute) \div MsPerSecond) \o "."
        \o Pad3(ms % MsPerSecond) \o "Z"

\* the texts of the instants of the clock
isoOfTime == [ms \in Times |-> formatISO(ms)]

\* Date.prototype.toISOString of the instant ms
toISOString(ms) == IF ms \in Times THEN isoOfTime[ms] ELSE formatISO(ms)

\* new Date(s).getTime(): the instant an ISO string denotes, NaN otherwise
getTime(s) ==
    IF \E ms \in Times : toISOString(ms) = s
    THEN CHOOSE ms \in Times : toISOString(ms) = s
    ELSE NaN

\* a > b on numbers; every comparison with NaN is false
GreaterThan(a, b) == a # NaN /\ b # NaN /\ a > b

\* ------------------------------------------------------------ ReportStorage
createNewReport(name, uuid, now) ==
    [id |-> randomUUID(uuid), name |-> name, pages |-> <<>>, issues |-> <<>>,
     createdAt |-> toISOString(now), updatedAt |-> toISOString(now)]

\* addIssue appending the page whether or not pages holds it
addIssuePushPage(report, issue, uuid, now) ==
    Spread(report,
        [pages |-> Append(report.pages, issue.page),
         issues |-> Append(report.issues,
                           Spread(issue, [id |-> randomUUID(uuid),
                                          createdAt |-> toISOString(now),
                                          updatedAt |-> toISOString(now)])),
         updatedAt |-> toISOString(now)])

addIssue(report, issue, uuid, now) ==
    LET newIssue == Spread(issue, [id |-> randomUUID(uuid),
                                   createdAt |-> toISOString(now),
                                   updatedAt |-> toISOString(now)])
        pages == IF issue.page \in Range(report.pages)
                 THEN report.pages
                 ELSE Append(report.pages, issue.page)
    IN  Spread(report, [pages |-> pages,
                        issues |-> Append(report.issues, newIssue),
                        updatedAt |-> toISOString(now)])

\* updateIssue with the updates spread last
updateIssueUpdatesLast(report, issueId, updates, now) ==
    Spread(report,
        [issues |-> [k \in 1..Len(report.issues) |->
                        IF report.issues[k].id = issueId
                        THEN Spread(Spread(report.issues[k], [updatedAt |-> toISOString(now)]),
                                    updates)
                        ELSE report.issues[k]],
         updatedAt |-> toISOString(now)])

updateIssue(report, issueId, updates, now) ==
    LET issues == [k \in 1..Len(report.issues) |->
                     IF report.issues[k].id = issueId
                     THEN Spread(Spread(report.issues[k], updates),
                                 [updatedAt |-> toISOString(now)])
                     ELSE report.issues[k]]
        found == {k \in 1..Len(report.issues) : report.issues[k].id = issueId}
        first == CHOOSE k \in found : \A j \in found : k <= j
        pageChanged == found = {} \/ report.issues[first].page # updates.page
        pages == IF /\ Truthy(updates, "page")
                    /\ pageChanged
                    /\ updates.page \notin Range(report.pages)
                 THEN Append(report.pages, updates.page)
                 ELSE report.pages
    IN  Spread(report, [pages |-> pages, issues |-> issues,
                        updatedAt |-> toISOString(now)])

\* deleteIssue leaving the pages as they are
deleteIssueKeepPages(report, issueId, now) ==
    Spread(report, [issues |-> SelectSeq(report.issues, LAMBDA issue : issue.id # issueId),
                    updatedAt |-> toISOString(now)])

deleteIssue(report, issueId, now) ==
    LET issues == SelectSeq(report.issues, LAMBDA issue : issue.id # issueId)
        usedPages == {issues[k].page : k \in 1..Len(issues)}
        pages == SelectSeq(report.pages, LAMBDA page : page \in usedPages)
    IN  Spread(report, [pages |-> pages, issues |-> issues,
                        updatedAt |-> toISOString(now)])

\* Map.prototype.set on a map kept as the sequence of its values in
\* insertion order, keyed by id
MapSet(m, issue) ==
    IF \E k \in 1..Len(m) : m[k].id = issue.id
    THEN [k \in 1..Len(m) |-> IF m[k].id = issue.id THEN issue ELSE m[k]]
    ELSE Append(m, issue)

MapHas(m, id) == \E k \in 1..Len(m) : m[k].id = id
MapGet(m, id) == m[CHOOSE k \in 1..Len(m) : m[k].id = id]

\* the first loop of mergeReports
RECURSIVE SetAll(_, _)
SetAll(m, issues) ==
    IF issues = <<>> THEN m ELSE SetAll(MapSet(m, Head(issues)), Tail(issues))

\* the collision test letting an equal updatedAt replace as well
ReplacesOrEqual(issue, existing) ==
    ~GreaterThan(getTime(existing.updatedAt), getTime(issue.updatedAt))

\* the collision test with the comparison turned round
ReplacesOlder(issue, existing) ==
    GreaterThan(getTime(existing.updatedAt), getTime(issue.updatedAt))

\* the collision test of the second loop: the copy of report2 replaces the
\* one already in the map
Replaces(issue, existing) ==
    GreaterThan(getTime(issue.updatedAt), getTime(existing.updatedAt))

\* the second loop without the collision test: report2 always replaces
MergeAllOverwrite(m, issues) == SetAll(m, issues)

\* the second loop of mergeReports
RECURSIVE MergeAll(_, _)
MergeAll(m, issues) ==
    IF issues = <<>> THEN m
    ELSE LET issue == Head(issues)
             next == IF ~MapHas(m, issue.id) THEN MapSet(m, issue)
                     ELSE IF Replaces(issue, MapGet(m, issue.id))
                          THEN MapSet(m, issue)
                          ELSE m
         IN  MergeAll(next, Tail(issues))

\* an array push in place of Set.prototype.add
AddAllPush(set, values) == set \o values

\* Set.prototype.add over a sequence of values, in insertion order
RECURSIVE AddAll(_, _)
AddAll(set, values) ==
    IF values = <<>> THEN set
    ELSE AddAll(IF Head(values) \in Range(set) THEN set ELSE Append(set, Head(values)),
                Tail(values))

\* a config taken for complete on its baseUrl alone
isCompleteConfigUrlOnly(config) == Truthy(config, "baseUrl")

isCompleteConfig(config) ==
    Truthy(config, "baseUrl") /\ Truthy(config, "apiToken") /\ Truthy(config, "userEmail")

\* the jiraConfig mergeReports keeps
mergedJiraConfig(report1, report2) ==
    LET c1 == Get(report1, "jiraConfig")
        c2 == Get(report2, "jiraConfig")
    IN  IF isCompleteConfig(c1) THEN c1
        ELSE IF isCompleteConfig(c2) THEN c2
        ELSE IF c1 # undefined THEN c1 ELSE c2

mergeReports(report1, report2, newTitle, uuid, now) ==
    LET mergedIssues == MergeAll(SetAll(<<>>, report1.issues), report2.issues)
        allPages == AddAll(AddAll(<<>>, report1.pages \o report2.pages),
                           [k \in 1..Len(mergedIssues) |-> mergedIssues[k].page])
        jiraConfig == mergedJiraConfig(report1, report2)
        merged == [id |-> randomUUID(uuid), name |-> newTitle, pages |-> allPages,
                   issues |-> mergedIssues, createdAt |-> toISOString(now),
                   updatedAt |-> toISOString(now)]
    IN  IF jiraConfig = undefined THEN merged
        ELSE Spread(merged, [jiraConfig |-> jiraConfig])

\* ------------------------------------------------- the portable JSON document
\* JSON.stringify of an object whose values are written already: its own
\* properties as name/value pairs, in the order keys gives them
Pairs(obj, keys) ==
    LET owned == SelectSeq(keys, LAMBDA k : k \in DOMAIN obj)
    IN  [n \in 1..Len(owned) |-> <<owned[n], obj[owned[n]]>>]

\* JSON.stringify of an issue leaving its ticket reference out
stringifyIssueNoTicket(issue) == Pairs(issue, SubSeq(IssueKeys, 1, 5))

stringifyIssue(issue) == Pairs(issue, IssueKeys)

stringifyConfig(config) == Pairs(config, ConfigKeys)

stringify(report) ==
    Pairs([k \in DOMAIN report |->
             IF k = "issues"
             THEN [n \in 1..Len(report.issues) |-> stringifyIssue(report.issues[n])]
             ELSE IF k = "jiraConfig" THEN stringifyConfig(report.jiraConfig)
             ELSE report[k]],
          ReportKeys)

\* JSON.parse of an object: the pairs back to properties
Object(pairs) ==
    [k \in {pairs[n][1] : n \in 1..Len(pairs)} |->
        pairs[CHOOSE n \in 1..Len(pairs) : pairs[n][1] = k][2]]

parseIssue(pairs) == Object(pairs)

parseConfig(pairs) == Object(pairs)

parse(text) ==
    LET obj == Object(text)
    IN  [k \in DOMAIN obj |->
           IF k = "issues"
           THEN [n \in 1..Len(obj.issues) |-> parseIssue(obj.issues[n])]
           ELSE IF k = "jiraConfig" THEN parseConfig(obj.jiraConfig)
           ELSE obj[k]]

\* the values JSON.parse can return, by kind; an array has items, an object
\* has props
JSONNull == [kind |-> "null"]
JSONString == [kind |-> "string"]
JSONNumber == [kind |-> "number"]
JSONBoolean == [kind |-> "boolean"]
JSONArray(items) == [kind |-> "array", items |-> items]
JSONObject(props) == [kind |-> "object", props |-> props]

\* typeof value; typeof null and typeof [] are 'object'
typeof(value) ==
    IF value = undefined THEN "undefined"
    ELSE IF value.kind \in {"null", "array", "object"} THEN "object"
    ELSE value.kind

\* r.key of a parsed value: only an object has the properties of the document
Property(value, key) ==
    IF value.kind = "object" /\ key \in DOMAIN value.props
    THEN value.props[key] ELSE undefined

isArray(value) == value # undefined /\ value.kind = "array"

\* validateReport without the test of r.issues
validateValueNoIssues(report) ==
    IF typeof(report) # "object" \/ report = JSONNull THEN FALSE
    ELSE /\ typeof(Property(report, "id")) = "string"
         /\ typeof(Property(report, "name")) = "string"
         /\ isArray(Property(report, "pages"))
         /\ typeof(Property(report, "createdAt")) = "string"
         /\ typeof(Property(report, "updatedAt")) = "string"

\* validateReport on a parsed value
validateValue(report) ==
    IF typeof(report) # "object" \/ report = JSONNull THEN FALSE
    ELSE /\ typeof(Property(report, "id")) = "string"
         /\ typeof(Property(report, "name")) = "string"
         /\ isArray(Property(report, "pages"))
         /\ isArray(Property(report, "issues"))
         /\ typeof(Property(report, "createdAt")) = "string"
         /\ typeof(Property(report, "updatedAt")) = "string"

\* the kinds of the properties of an object this program wrote
KindsOf(report) ==
    JSONObject([k \in DOMAIN report |->
                  IF k \in {"pages", "issues"} THEN JSONArray(<<>>)
                  ELSE IF k = "jiraConfig" THEN JSONObject(<<>>)
                  ELSE JSONString])

validateReport(report) == validateValue(KindsOf(report))

\* the text of a file JSON.parse throws on
Unparsable == <<<<"SyntaxError">>>>

\* loadReportFromFile resolving with whatever JSON.parse returns
loadReportUnvalidated(file) ==
    IF file = NoFile \/ file = Unparsable THEN null
    ELSE parse(file)

\* the value loadReportFromFile resolves with; null when it rejects
loadReportFromFile(file) ==
    IF file = NoFile \/ file = Unparsable THEN null
    ELSE LET report == parse(file)
         IN  IF validateReport(report) THEN report ELSE null

\* String.prototype.trim on the strings the forms are given: a blank one
\* becomes empty
trim(s) == IF s = " " THEN "" ELSE s

\* ----------------------------------------------------------------- state
VARIABLES
    report,     \* App.svelte: the current report, null before one exists
    files,      \* the JSON documents downloaded so far
    exported,   \* the report each of them was written from
    clock,      \* the last instant new Date() returned
    uuid,       \* how many identifiers crypto.randomUUID() has drawn
    steps,      \* how many handlers have run
    last,       \* the handler that ran last, with what it was given
    selectedPage,  \* App.svelte: the page filter, '__all__' for every page
    showAddForm,   \* App.svelte: the issue form is open
    editingIssue,  \* App.svelte: the issue the form edits, null when it adds
    config1,    \* JiraConfigModal: the config saved on a first report
    config2,    \* JiraConfigModal: the config saved on a second report
    merged,     \* the report merged from those two, null before
    parsedValue,  \* loadReportFromFile: what JSON.parse returned, none before
    loadResult,   \* loadReportFromFile: what the promise settled with
    tags,         \* AxeResultsPage: violation.tags of the violation processed
    wcagTags,     \* processViolationNode: the tags extractCriterionNumber is given
    extracted,    \* what extractCriterionNumber returned, undefined before the call
    jiraUrlInput, \* JiraCreateModal: the parts of the text in the URL input
    parsedResult, \* what parseJiraUrl returned, undefined before the call
    relayRequest, \* jira-proxy: req.body of the POST /proxy being handled
    upstream,     \* jira-proxy: what the forward to the named URL came to
    relayResponse,  \* jira-proxy: the status and body the handler sent
    clientResult, \* fetchWithProxy: what the caller got from the relay
    sortBy,       \* App.svelte: the sort order chosen in the table
    html,         \* html-export: the sections of the document downloaded last
    digestIssues, \* weekly-report: report.issues of the report digested
    today,        \* getWeekRange: what new Date() returned for the current week
    markdown,     \* what generateWeeklyReport returned, undefined before the call
    issuesProp,   \* IssuesTable: the array the issues prop holds
    tableSortBy,  \* IssuesTable: sortBy
    showOnlyNeedsReview,  \* IssuesTable: the needs-review filter is on
    sortedIssues, \* IssuesTable: the array the table shows
    idb,          \* IndexedDB: what the store holds under 'current-report'
    localStore,   \* localStorage: the report under 'a11y-reporter-current-report'
    profile,      \* what the two held before the application started
    mount,        \* App.svelte onMount: where it is
    hasLoadedInitially,  \* App.svelte: hasLoadedInitially
    effectSeen,   \* the auto-save $effect: the state its last run read
    requests,     \* IndexedDB: the transactions created and not yet complete
    loadFailed,   \* the initial load failed
    writeFailed,  \* a write or a delete of the store failed
    overlapped,   \* two transactions have been pending at once
    showJiraCreateModal, \* App: the create modal is shown
    showJiraConfigModal, \* App: the config modal is shown
    pendingJiraAction,   \* App: a ticket waits for the config to be saved
    jiraIssue,    \* App: jiraIssueToCreate, null when there is none
    modal,        \* the JiraCreateModal component, null when there is none
    instances,    \* how many JiraCreateModal components have been created
    calls,        \* create requests whose response has not arrived
    tracker       \* the tickets the tracker has created

uiVars == <<selectedPage, showAddForm, editingIssue>>
storeVars == <<report, files, exported, clock, uuid, steps, last, uiVars>>
configVars == <<config1, config2, merged>>
validateVars == <<parsedValue, loadResult>>
axeVars == <<tags, wcagTags, extracted>>
urlVars == <<jiraUrlInput, parsedResult>>
relayVars == <<relayRequest, upstream, relayResponse, clientResult>>
exportVars == <<sortBy, html>>
digestVars == <<digestIssues, today, markdown>>
tableVars == <<issuesProp, tableSortBy, showOnlyNeedsReview, sortedIssues>>
persistVars == <<idb, localStore, profile, mount, hasLoadedInitially, effectSeen, requests,
                 loadFailed, writeFailed, overlapped>>
ticketVars == <<showJiraCreateModal, showJiraConfigModal, pendingJiraAction, jiraIssue, modal,
                instances, calls, tracker>>
pureVars == <<validateVars, axeVars, urlVars, relayVars, exportVars, digestVars, tableVars,
              persistVars, ticketVars>>
vars == <<report, files, exported, clock, uuid, steps, last, uiVars, config1, config2, merged,
          pureVars>>

\* what new Date() can return next: the clock has not moved, or it has
Now == {t \in Times : clock <= t /\ t <= clock + 1}

\* the record of a handler: pre is the report an add started from; report1
\* and report2 are the reports a merge was given (report1 also the report an
\* upload read, or the data an add was given); arg is the issue id or title
Ran(op, pre, r1, r2, arg) ==
    [op |-> op, pre |-> pre, report1 |-> r1, report2 |-> r2, arg |-> arg]

\* the handler was handleSubmitIssue adding data to the report pre
RanAdd(pre, data, id) == [Ran("add", pre, null, null, id) EXCEPT !.report1 = data]

\* what the issue form and the axe results page submit
FormData == [page : Pages, title : Titles]

\* what JiraConfigModal is given: text in all three required inputs
RawConfigs == {[baseUrl |-> "https://a", apiToken |-> "tok-a", userEmail |-> "a@x"]}

Tickets == {[jiraTicketUrl |-> "https://a/browse/K-1", jiraTicketKey |-> "K-1"]}

\* what the inputs of JiraConfigModal can hold
Inputs == {"", " ", "a", "b"}

\* JiraConfigModal handleSubmit, the config it hands to onSave
handleSubmit(baseUrl, apiToken, userEmail) ==
    [baseUrl |-> trim(baseUrl), apiToken |-> trim(apiToken), userEmail |-> trim(userEmail)]

\* handleJiraConfigSave on a report
withConfig(r, config, now) ==
    Spread(r, [jiraConfig |-> config, updatedAt |-> toISOString(now)])

Init ==
    /\ report = null
    /\ files = <<>>
    /\ exported = <<>>
    /\ clock = 0
    /\ uuid = 0
    /\ steps = 0
    /\ last = Ran("init", null, null, null, "")
    /\ selectedPage = "__all__"
    /\ showAddForm = FALSE
    /\ editingIssue = null
    /\ config1 = undefined
    /\ config2 = undefined
    /\ merged = null
    /\ parsedValue = [kind |-> "none"]
    /\ loadResult = [state |-> "pending"]
    /\ tags = <<>>
    /\ wcagTags = <<>>
    /\ extracted = undefined
    /\ jiraUrlInput = undefined
    /\ parsedResult = undefined
    /\ relayRequest = undefined
    /\ upstream = undefined
    /\ relayResponse = undefined
    /\ clientResult = undefined
    /\ sortBy = "priority"
    /\ html = undefined
    /\ digestIssues = <<>>
    /\ today = undefined
    /\ markdown = undefined
    /\ issuesProp = <<>>
    /\ tableSortBy = "priority"
    /\ showOnlyNeedsReview = FALSE
    /\ sortedIssues = <<>>
    /\ idb = undefined
    /\ localStore = undefined
    /\ profile = undefined
    /\ mount = "off"
    /\ hasLoadedInitially = FALSE
    /\ effectSeen = undefined
    /\ requests = <<>>
    /\ loadFailed = FALSE
    /\ writeFailed = FALSE
    /\ overlapped = FALSE
    /\ showJiraCreateModal = FALSE
    /\ showJiraConfigModal = FALSE
    /\ pendingJiraAction = FALSE
    /\ jiraIssue = null
    /\ modal = null
    /\ instances = 0
    /\ calls = <<>>
    /\ tracker = <<>>

\* ------------------------------------------------------- App.svelte handlers
\* selectedPage = '__all__'; showAddForm = false; editingIssue = null
ResetView ==
    /\ selectedPage' = "__all__"
    /\ showAddForm' = FALSE
    /\ editingIssue' = null

\* showAddForm = false; editingIssue = null
CloseForm ==
    /\ showAddForm' = FALSE
    /\ editingIssue' = null
    /\ UNCHANGED selectedPage

handleCreateReport(newReportName) ==
    /\ steps < MaxSteps /\ uuid < MaxUuid
    /\ trim(newReportName) # ""
    /\ \E now \in Now :
         /\ report' = createNewReport(trim(newReportName), uuid + 1, now)
         /\ clock' = now
    /\ uuid' = uuid + 1
    /\ steps' = steps + 1
    /\ last' = Ran("create", null, null, null, "")
    /\ ResetView
    /\ UNCHANGED <<files, exported, configVars, pureVars>>

\* handleSubmitIssue with no issue being edited
handleSubmitIssueAdd(data) ==
    /\ steps < MaxSteps /\ uuid < MaxUuid
    /\ report # null
    /\ \E now \in Now :
         /\ report' = addIssue(report, data, uuid + 1, now)
         /\ clock' = now
    /\ uuid' = uuid + 1
    /\ steps' = steps + 1
    /\ last' = RanAdd(report, data, randomUUID(uuid + 1))
    /\ CloseForm
    /\ UNCHANGED <<files, exported, configVars, pureVars>>

\* handleEditIssue on a row of the table, then handleSubmitIssue
handleSubmitIssueEdit(issue, data) ==
    /\ steps < MaxSteps
    /\ report # null
    /\ issue \in Range(report.issues)
    /\ \E now \in Now :
         /\ report' = updateIssue(report, issue.id, data, now)
         /\ clock' = now
    /\ steps' = steps + 1
    /\ last' = Ran("update", null, null, null, issue.id)
    /\ CloseForm
    /\ UNCHANGED <<files, exported, uuid, configVars, pureVars>>

handleDeleteIssue(issueId) ==
    /\ steps < MaxSteps
    /\ report # null
    /\ \E k \in 1..Len(report.issues) : report.issues[k].id = issueId
    /\ \E now \in Now :
         /\ report' = deleteIssue(report, issueId, now)
         /\ clock' = now
    /\ steps' = steps + 1
    /\ last' = IF last.op = "add" /\ last.arg = issueId
               THEN [last EXCEPT !.op = "add-delete"]
               ELSE Ran("delete", null, null, null, issueId)
    /\ UNCHANGED uiVars
    /\ UNCHANGED <<files, exported, uuid, configVars, pureVars>>

handleJiraConfigSave(raw) ==
    /\ steps < MaxSteps
    /\ report # null
    /\ raw.baseUrl # "" /\ raw.apiToken # "" /\ raw.userEmail # ""
    /\ \E now \in Now :
         /\ report' = withConfig(report, handleSubmit(raw.baseUrl, raw.apiToken, raw.userEmail), now)
         /\ clock' = now
    /\ steps' = steps + 1
    /\ last' = Ran("config", null, null, null, "")
    /\ UNCHANGED uiVars
    /\ UNCHANGED <<files, exported, uuid, configVars, pureVars>>

\* handleCreateJiraTicket: Jira is configured, so the create modal opens
IsConfigured(r) ==
    /\ Truthy(Get(r, "jiraConfig"), "baseUrl")
    /\ Truthy(Get(r, "jiraConfig"), "apiToken")
    /\ Truthy(Get(r, "jiraConfig"), "userEmail")

\* handleJiraCreateSuccess writing the ticket on every issue
withTicketOnAll(r, issueId, ticket, now) ==
    Spread(r,
        [issues |-> [k \in 1..Len(r.issues) |->
                        Spread(r.issues[k],
                               Spread(ticket, [updatedAt |-> toISOString(now)]))],
         updatedAt |-> toISOString(now)])

\* handleJiraCreateSuccess on a report: the issue of that id gets the ticket
withTicket(r, issueId, ticket, now) ==
    Spread(r,
        [issues |-> [k \in 1..Len(r.issues) |->
                        IF r.issues[k].id = issueId
                        THEN Spread(r.issues[k],
                                    Spread(ticket, [updatedAt |-> toISOString(now)]))
                        ELSE r.issues[k]],
         updatedAt |-> toISOString(now)])

\* handleCreateJiraTicket on a row of the table, the ticket created in
\* JiraCreateModal, then handleSuccessClose and handleJiraCreateSuccess
handleJiraCreateSuccess(jiraIssueToCreate, ticket) ==
    /\ steps < MaxSteps
    /\ report # null
    /\ jiraIssueToCreate \in Range(report.issues)
    /\ IsConfigured(report)
    /\ \E now \in Now :
         /\ report' = withTicket(report, jiraIssueToCreate.id, ticket, now)
         /\ clock' = now
    /\ steps' = steps + 1
    /\ last' = Ran("ticket", null, null, null, jiraIssueToCreate.id)
    /\ UNCHANGED uiVars
    /\ UNCHANGED <<files, exported, uuid, configVars, pureVars>>

\* downloadJSON: downloadReport writes the document to a file
downloadJSON ==
    /\ steps < MaxSteps
    /\ report # null
    /\ Len(files) < NumFiles
    /\ files' = Append(files, stringify(report))
    /\ exported' = Append(exported, report)
    /\ steps' = steps + 1
    /\ last' = Ran("download", null, null, null, "")
    /\ UNCHANGED uiVars
    /\ UNCHANGED <<report, clock, uuid, configVars, pureVars>>

\* handleFileUpload given a file; written is the report the file was written
\* from when this program wrote it
uploadFile(file, written) ==
    /\ steps < MaxSteps
    /\ LET loadedReport == loadReportFromFile(file)
       IN  IF loadedReport # null
           THEN /\ report' = loadedReport
                /\ ResetView
                /\ last' = Ran("upload", null, written, file, "")
           ELSE /\ UNCHANGED <<report, uiVars>>
                /\ last' = Ran("alert", null, written, file, "")
    /\ steps' = steps + 1
    /\ UNCHANGED <<files, exported, clock, uuid, configVars, pureVars>>

handleFileUpload(slot) ==
    /\ slot \in 1..Len(files)
    /\ uploadFile(files[slot], exported[slot])

\* MergeReportsModal: both files loaded, handleMerge, then
\* handleMergeReportsComplete
handleMerge(slot1, slot2, mergedTitle) ==
    /\ steps < MaxSteps /\ uuid < MaxUuid
    /\ slot1 \in 1..Len(files) /\ slot2 \in 1..Len(files)
    /\ trim(mergedTitle) # ""
    /\ LET report1 == loadReportFromFile(files[slot1])
           report2 == loadReportFromFile(files[slot2])
       IN  /\ report1 # null /\ report2 # null
           /\ \E now \in Now :
                /\ report' = mergeReports(report1, report2, trim(mergedTitle),
                                          uuid + 1, now)
                /\ clock' = now
           /\ last' = Ran("merge", null, report1, report2, trim(mergedTitle))
    /\ selectedPage' = "__all__"
    /\ UNCHANGED <<showAddForm, editingIssue>>
    /\ uuid' = uuid + 1
    /\ steps' = steps + 1
    /\ UNCHANGED <<files, exported, configVars, pureVars>>

Next ==
    \/ \E name \in Names : handleCreateReport(name)
    \/ \E data \in FormData : handleSubmitIssueAdd(data)
    \/ \E k \in 1..MaxUuid, data \in FormData :
         /\ report # null /\ k <= Len(report.issues)
         /\ handleSubmitIssueEdit(report.issues[k], data)
    \/ \E n \in Uuids : handleDeleteIssue(randomUUID(n))
    \/ \E raw \in RawConfigs : handleJiraConfigSave(raw)
    \/ \E k \in 1..MaxUuid, ticket \in Tickets :
         /\ report # null /\ k <= Len(report.issues)
         /\ handleJiraCreateSuccess(report.issues[k], ticket)
    \/ downloadJSON
    \/ \E slot \in Slots : handleFileUpload(slot)
    \/ \E slot1 \in Slots, slot2 \in Slots, title \in MergedTitles :
         handleMerge(slot1, slot2, title)

Spec == Init /\ [][Next]_vars

\* ------------------------------------- ReportStorage called with any update
\* Partial<Issue>: any of the properties of an issue, id included
PartialIssues ==
    {updates \in UNION {[keys -> {randomUUID(n) : n \in Uuids} \cup Pages] :
                          keys \in SUBSET {"id", "page"}} :
        /\ "id" \in DOMAIN updates => updates.id \notin Pages
        /\ "page" \in DOMAIN updates => updates.page \in Pages}

updateIssueCall(issueId, updates) ==
    /\ steps < MaxSteps
    /\ report # null
    /\ \E now \in Now :
         /\ report' = updateIssue(report, issueId, updates, now)
         /\ clock' = now
    /\ steps' = steps + 1
    /\ last' = Ran("update", null, null, null, issueId)
    /\ UNCHANGED uiVars
    /\ UNCHANGED <<files, exported, uuid, configVars, pureVars>>

NextApi ==
    \/ Next
    \/ \E n \in Uuids, updates \in PartialIssues :
         updateIssueCall(randomUUID(n), updates)

SpecApi == Init /\ [][NextApi]_vars

\* ----------------------------- ReportStorage called with a dated update
\* Partial<Issue>: updates that carry an updatedAt of their own
DatedUpdates == {[updatedAt |-> toISOString(t)] : t \in Times}

\* ReportStorage.updateIssue(report, issueId, updates) with such an update
updateIssueDated(issueId, updates) ==
    /\ steps < MaxSteps
    /\ report # null
    /\ \E now \in Now :
         /\ report' = updateIssue(report, issueId, updates, now)
         /\ clock' = now
    /\ steps' = steps + 1
    /\ last' = [Ran("update", null, null, null, issueId) EXCEPT !.report1 = updates]
    /\ UNCHANGED uiVars
    /\ UNCHANGED <<files, exported, uuid, configVars, pureVars>>

NextDated ==
    \/ \E name \in Names : handleCreateReport(name)
    \/ \E data \in FormData : handleSubmitIssueAdd(data)
    \/ \E k \in 1..MaxUuid, data \in FormData :
         /\ report # null /\ k <= Len(report.issues)
         /\ handleSubmitIssueEdit(report.issues[k], data)
    \/ \E n \in Uuids, updates \in DatedUpdates :
         updateIssueDated(randomUUID(n), updates)

SpecDated == Init /\ [][NextDated]_vars

\* ------------------------------------------ the tracker config of a merge
saveConfig1(baseUrl, apiToken, userEmail) ==
    /\ merged = null
    /\ baseUrl # "" /\ apiToken # "" /\ userEmail # ""
    /\ config1' = handleSubmit(baseUrl, apiToken, userEmail)
    /\ UNCHANGED <<config2, merged, storeVars, pureVars>>

saveConfig2(baseUrl, apiToken, userEmail) ==
    /\ merged = null
    /\ baseUrl # "" /\ apiToken # "" /\ userEmail # ""
    /\ config2' = handleSubmit(baseUrl, apiToken, userEmail)
    /\ UNCHANGED <<config1, merged, storeVars, pureVars>>

\* the report a config was saved on, or not
Configured(name, n, config) ==
    IF config = undefined THEN createNewReport(name, n, 0)
    ELSE withConfig(createNewReport(name, n, 0), config, 0)

mergeConfigured ==
    /\ merged = null
    /\ merged' = mergeReports(Configured("first", 1, config1),
                              Configured("second", 2, config2), "merged", 3, 0)
    /\ UNCHANGED <<config1, config2, storeVars, pureVars>>

NextConfig ==
    \/ \E baseUrl \in Inputs, apiToken \in Inputs, userEmail \in Inputs :
         saveConfig1(baseUrl, apiToken, userEmail)
    \/ \E baseUrl \in Inputs, apiToken \in Inputs, userEmail \in Inputs :
         saveConfig2(baseUrl, apiToken, userEmail)
    \/ mergeConfigured

SpecConfig == Init /\ [][NextConfig]_vars

\* ------------------------------------------- loadReportFromFile on any file
\* what a file can hold under each key of a report: nothing, or a value of
\* the kind the key is given
FieldChoices ==
    [id : {undefined, JSONString, JSONNumber, JSONNull},
     name : {undefined, JSONString, JSONNumber, JSONNull},
     createdAt : {undefined, JSONString, JSONNumber},
     updatedAt : {undefined, JSONString, JSONNumber},
     pages : {undefined, JSONArray(<<>>), JSONString, JSONObject(<<>>)},
     issues : {undefined, JSONArray(<<>>), JSONArray(<<JSONNumber>>),
               JSONArray(<<JSONObject(<<>>)>>), JSONString}]

\* the object with the keys a choice gives a value
ObjectOf(choice) ==
    JSONObject([k \in {key \in DOMAIN choice : choice[key] # undefined} |-> choice[k]])

\* what JSON.parse can return for the text of a file
ParsedValues ==
    {JSONNull, JSONString, JSONNumber, JSONBoolean, JSONArray(<<>>),
     JSONArray(<<JSONString>>)}
    \cup {ObjectOf(choice) : choice \in FieldChoices}

\* reader.onload: JSON.parse(e.target.result) returned value
parseFile(value) ==
    /\ parsedValue = [kind |-> "none"]
    /\ parsedValue' = value
    /\ UNCHANGED <<loadResult, storeVars, configVars, axeVars, urlVars, relayVars, exportVars, digestVars, tableVars, persistVars, ticketVars>>

\* reader.onload after the parse: resolve(report) or reject
settleLoad ==
    /\ parsedValue # [kind |-> "none"]
    /\ loadResult = [state |-> "pending"]
    /\ loadResult' = IF validateValue(parsedValue)
                     THEN [state |-> "resolved", value |-> parsedValue]
                     ELSE [state |-> "rejected"]
    /\ UNCHANGED <<parsedValue, storeVars, configVars, axeVars, urlVars, relayVars, exportVars, digestVars, tableVars, persistVars, ticketVars>>

NextValidate ==
    \/ /\ parsedValue = [kind |-> "none"]
       /\ \E value \in ParsedValues : parseFile(value)
    \/ settleLoad

SpecValidate == Init /\ [][NextValidate]_vars

\* ------------------------------------------- imports of files from elsewhere
\* a report some other session wrote
ForeignReport ==
    [id |-> "uuid-x", name |-> "other", pages |-> <<"home">>,
     issues |-> <<[id |-> "uuid-y", page |-> "home", title |-> "alt",
                   createdAt |-> toISOString(0), updatedAt |-> toISOString(0)]>>,
     createdAt |-> toISOString(0), updatedAt |-> toISOString(0)]

\* a document without one of its keys
Without(text, key) == SelectSeq(text, LAMBDA pair : pair[1] # key)

\* the files the user can pick: one that is not JSON, a report, and that
\* report less one of the properties validateReport asks for
ForeignFiles ==
    {Unparsable, stringify(ForeignReport)}
    \cup {Without(stringify(ForeignReport), key) :
             key \in {"id", "name", "pages", "issues", "createdAt", "updatedAt"}}

handleFileUploadForeign(file) == uploadFile(file, null)

\* the page filter: bind:value={selectedPage} on the select of report.pages
selectPage(page) ==
    /\ steps < MaxSteps
    /\ report # null
    /\ page \in {"__all__"} \cup Range(report.pages)
    /\ selectedPage' = page
    /\ steps' = steps + 1
    /\ last' = Ran("view", null, null, null, "")
    /\ UNCHANGED <<report, files, exported, clock, uuid,
                   showAddForm, editingIssue, configVars, pureVars>>

handleAddIssue ==
    /\ steps < MaxSteps
    /\ report # null
    /\ showAddForm' = TRUE
    /\ editingIssue' = null
    /\ steps' = steps + 1
    /\ last' = Ran("view", null, null, null, "")
    /\ UNCHANGED <<report, files, exported, clock, uuid,
                   selectedPage, configVars, pureVars>>

handleEditIssue(issue) ==
    /\ steps < MaxSteps
    /\ report # null
    /\ issue \in Range(report.issues)
    /\ editingIssue' = issue
    /\ showAddForm' = TRUE
    /\ steps' = steps + 1
    /\ last' = Ran("view", null, null, null, "")
    /\ UNCHANGED <<report, files, exported, clock, uuid,
                   selectedPage, configVars, pureVars>>

handleCancelForm ==
    /\ steps < MaxSteps
    /\ showAddForm
    /\ CloseForm
    /\ steps' = steps + 1
    /\ last' = Ran("view", null, null, null, "")
    /\ UNCHANGED <<report, files, exported, clock, uuid,
                   configVars, pureVars>>

NextImport ==
    \/ \E name \in Names : handleCreateReport(name)
    \/ \E data \in FormData : handleSubmitIssueAdd(data)
    \/ \E page \in Pages \cup {"__all__"} : selectPage(page)
    \/ handleAddIssue
    \/ \E k \in 1..MaxUuid :
         /\ report # null /\ k <= Len(report.issues)
         /\ handleEditIssue(report.issues[k])
    \/ handleCancelForm
    \/ \E file \in ForeignFiles : handleFileUploadForeign(file)

SpecImport == Init /\ [][NextImport]_vars

\* ------------------------------------------ AxeResultsPage: criterion numbers
MaxTags == 2

\* a string is the sequence of its characters
wcag == <<"w", "c", "a", "g">>

Digits == {"0", "1", "2", "3", "4", "5", "6", "7", "8", "9"}

\* tags axe-core gives its rules, and tags written otherwise
AxeTags ==
    {wcag \o <<"1", "1", "1">>, wcag \o <<"4", "1", "2">>,
     wcag \o <<"1", "3", "1", "2">>, wcag \o <<"2", "a">>,
     wcag \o <<"2", "a", "a">>, wcag \o <<"2", "1", "a", "a">>,
     wcag \o <<"2", "2">>, wcag \o <<"1", "1", "1", "a">>,
     wcag \o <<"1", "a", "1", "1">>, wcag,
     <<"W", "C", "A", "G", "1", "1", "1">>,
     <<"c", "a", "t", ".", "a", "r", "i", "a">>,
     <<"x">> \o wcag \o <<"1", "1", "1">>}

\* tag.startsWith('wcag')
startsWith(tag, prefix) ==
    Len(tag) >= Len(prefix) /\ SubSeq(tag, 1, Len(prefix)) = prefix

\* tag.match(/^wcag(\d)(\d)(\d)/): the end of the tag not anchored
matchUnanchored(tag) ==
    IF /\ Len(tag) >= 7
       /\ SubSeq(tag, 1, 4) = wcag
       /\ \A i \in 5..7 : tag[i] \in Digits
    THEN <<tag, <<tag[5]>>, <<tag[6]>>, <<tag[7]>>>>
    ELSE null

\* tag.match(/^wcag(\d)(\d)(\d+)$/): the match with its three groups, or null
match(tag) ==
    IF /\ Len(tag) >= 7
       /\ SubSeq(tag, 1, 4) = wcag
       /\ \A i \in 5..Len(tag) : tag[i] \in Digits
    THEN <<tag, <<tag[5]>>, <<tag[6]>>, SubSeq(tag, 7, Len(tag))>>
    ELSE null

\* the for loop of extractCriterionNumber from the n-th tag on
RECURSIVE extractFrom(_, _)
extractFrom(list, n) ==
    IF n > Len(list) THEN null
    ELSE LET m == match(list[n])
         IN  IF m # null THEN m[2] \o <<".">> \o m[3] \o <<".">> \o m[4]
             ELSE extractFrom(list, n + 1)

extractCriterionNumber(list) == extractFrom(list, 1)

\* a violation arrives with one more tag
addTag(tag) ==
    /\ extracted = undefined
    /\ Len(tags) < MaxTags
    /\ tags' = Append(tags, tag)
    /\ UNCHANGED <<wcagTags, extracted, validateVars, urlVars, relayVars, exportVars, digestVars, tableVars, persistVars, ticketVars, storeVars, configVars>>

processViolationNode ==
    /\ extracted = undefined
    /\ LET filtered == SelectSeq(tags, LAMBDA tag : startsWith(tag, wcag))
       IN  /\ wcagTags' = filtered
           /\ extracted' = extractCriterionNumber(filtered)
    /\ UNCHANGED <<tags, validateVars, urlVars, relayVars, exportVars, digestVars, tableVars, persistVars, ticketVars, storeVars, configVars>>

NextAxe ==
    \/ \E tag \in AxeTags : addTag(tag)
    \/ processViolationNode

SpecAxe == Init /\ [][NextAxe]_vars

\* ------------------------------------------------- JiraService.parseJiraUrl
MaxSegments == 4

LowerCase == <<"a", "b", "c", "d", "e", "f", "g", "h", "i", "j", "k", "l", "m", "n", "o", "p", "q", "r", "s", "t", "u", "v", "w", "x", "y", "z">>
UpperCase == <<"A", "B", "C", "D", "E", "F", "G", "H", "I", "J", "K", "L", "M", "N", "O", "P", "Q", "R", "S", "T", "U", "V", "W", "X", "Y", "Z">>

\* the /i flag: a letter matches in either case
Lowered == [c \in Range(UpperCase) |-> LowerCase[CHOOSE i \in 1..26 : UpperCase[i] = c]]
Raised == [c \in Range(LowerCase) |-> UpperCase[CHOOSE i \in 1..26 : LowerCase[i] = c]]

toLowerCase(c) == IF c \in DOMAIN Lowered THEN Lowered[c] ELSE c

toUpperCase(c) == IF c \in DOMAIN Raised THEN Raised[c] ELSE c

\* [A-Z] without the /i flag
IsUpperCaseLetter(c) == c \in DOMAIN Lowered

\* [A-Z] under /i
IsLetter(c) == toLowerCase(c) \in DOMAIN Raised

\* [A-Z0-9] under /i
IsKeyChar(c) == IsLetter(c) \/ c \in Digits

\* the pieces of path a user can type between slashes
Segments ==
    {<<"p", "r", "o", "j", "e", "c", "t", "s">>, <<"b", "o", "a", "r", "d", "s">>, <<"b", "r", "o", "w", "s", "e">>,
     <<"A", "B">>, <<"a", "b">>, <<"A", "B", "-", "1">>, <<"a", "b", "-", "1">>,
     <<"1", "2">>, <<"A">>}

Origin == <<"h", "t", "t", "p", "s", ":", "/", "/", "h">>

\* the text of the input: the origin when it has one, a slash before each
\* segment of a URL and between the segments otherwise, then the query
RECURSIVE Joined(_)
Joined(segments) ==
    IF segments = <<>> THEN <<>>
    ELSE <<"/">> \o Head(segments) \o Joined(Tail(segments))

Text(input) ==
    (IF input.absolute THEN Origin \o Joined(input.segments)
     ELSE IF input.segments = <<>> THEN <<>>
     ELSE Tail(Joined(input.segments)))
    \o input.query

\* what can be in the URL input
JiraUrlInputs ==
    [absolute : BOOLEAN,
     segments : UNION {[1..n -> Segments] : n \in 0..MaxSegments},
     query : {<<>>}]
    \cup [absolute : {TRUE},
          segments : {<<>>, <<<<"p", "r", "o", "j", "e", "c", "t", "s">>, <<"A", "B">>>>},
          query : {<<"?">> \o Joined(<<<<"b", "r", "o", "w", "s", "e">>, <<"A", "B", "-", "1">>>>)}]

\* new URL(url) succeeds: the text starts with a scheme and a host
IsURL(url) ==
    /\ startsWith(url, Origin)
    /\ Len(url) > Len(Origin) => url[Len(Origin) + 1] \in {"/", "?"}

\* urlObj.pathname: what follows the host, up to the query; '/' when nothing
pathname(url) ==
    LET rest == SubSeq(url, Len(Origin) + 1, Len(url))
        marks == {i \in 1..Len(rest) : rest[i] = "?"}
        path == IF marks = {} THEN rest
                ELSE SubSeq(rest, 1, (CHOOSE i \in marks : \A k \in marks : i <= k) - 1)
    IN  IF path = <<>> THEN <<"/">> ELSE path

\* the literal is at position i of the text, in either case
LiteralAt(text, i, literal) ==
    /\ i + Len(literal) - 1 <= Len(text)
    /\ \A k \in 1..Len(literal) : toLowerCase(text[i + k - 1]) = literal[k]

\* where a match of [A-Z][A-Z0-9]+ that starts at position i can end
KeyEnds(text, i) ==
    {j \in (i + 1)..Len(text) :
        IsLetter(text[i]) /\ \A k \in (i + 1)..j : IsKeyChar(text[k])}

\* where the match of \d+ that starts at position i ends; 0 when none does
DigitsEnd(text, i) ==
    LET ends == {j \in i..Len(text) : \A k \in i..j : text[k] \in Digits}
    IN  IF ends = {} THEN 0 ELSE CHOOSE j \in ends : \A k \in ends : k <= j

Least(set) == CHOOSE i \in set : \A k \in set : i <= k
Greatest(set) == CHOOSE i \in set : \A k \in set : k <= i

\* path.match(/\/projects\/([A-Z][A-Z0-9]+)\/boards\/(\d+)/i): the match and its
\* groups, or null
matchBoard(path) ==
    LET KeysAt(i) == {j \in KeyEnds(path, i + 10) :
                        /\ LiteralAt(path, j + 1, <<"/", "b", "o", "a", "r", "d", "s", "/">>)
                        /\ DigitsEnd(path, j + 9) # 0}
        starts == {i \in 1..Len(path) :
                     LiteralAt(path, i, <<"/", "p", "r", "o", "j", "e", "c", "t", "s", "/">>) /\ KeysAt(i) # {}}
    IN  IF starts = {} THEN null
        ELSE LET i == Least(starts)
                 j == Greatest(KeysAt(i))
             IN  <<SubSeq(path, i, DigitsEnd(path, j + 9)), SubSeq(path, i + 10, j),
                   SubSeq(path, j + 9, DigitsEnd(path, j + 9))>>

\* path.match(/\/browse\/([A-Z][A-Z0-9]+-\d+)/i): the match and its group, or null
matchBrowse(path) ==
    LET KeysAt(i) == {j \in KeyEnds(path, i + 8) :
                        /\ LiteralAt(path, j + 1, <<"-">>)
                        /\ DigitsEnd(path, j + 2) # 0}
        starts == {i \in 1..Len(path) :
                     LiteralAt(path, i, <<"/", "b", "r", "o", "w", "s", "e", "/">>) /\ KeysAt(i) # {}}
    IN  IF starts = {} THEN null
        ELSE LET i == Least(starts)
                 j == Greatest(KeysAt(i))
             IN  <<SubSeq(path, i, DigitsEnd(path, j + 2)),
                   SubSeq(path, i + 8, DigitsEnd(path, j + 2))>>

\* path.match(/\/projects\/([A-Z][A-Z0-9]+)/i): the match and its group, or null
matchProject(path) ==
    LET starts == {i \in 1..Len(path) :
                     LiteralAt(path, i, <<"/", "p", "r", "o", "j", "e", "c", "t", "s", "/">>) /\ KeyEnds(path, i + 10) # {}}
    IN  IF starts = {} THEN null
        ELSE LET i == Least(starts)
             IN  <<SubSeq(path, i, Greatest(KeyEnds(path, i + 10))),
                   SubSeq(path, i + 10, Greatest(KeyEnds(path, i + 10)))>>

\* url.match(/^([A-Z][A-Z0-9]+)$/i): the match and its group, or null
matchDirectKey(url) ==
    IF url # <<>> /\ Len(url) \in KeyEnds(url, 1) THEN <<url, url>> ELSE null

\* issueKey.split('-')[0]
splitFirst(issueKey) ==
    LET dashes == {i \in 1..Len(issueKey) : issueKey[i] = "-"}
    IN  IF dashes = {} THEN issueKey ELSE SubSeq(issueKey, 1, Least(dashes) - 1)

projectResult(projectKey) ==
    [type |-> "project", projectKey |-> projectKey,
     label |-> <<"Project ">> \o projectKey]

parseJiraUrl(url) ==
    LET path == pathname(url)
        boardMatch == matchBoard(path)
        browseMatch == matchBrowse(path)
        projectMatch == matchProject(path)
        directKeyMatch == matchDirectKey(url)
        issueKey == browseMatch[2]
    IN  IF IsURL(url)
        THEN IF boardMatch # null
             THEN [type |-> "board", projectKey |-> boardMatch[2],
                   boardId |-> boardMatch[3],
                   label |-> <<"Board ">> \o boardMatch[3] \o <<" (Project ">>
                             \o boardMatch[2] \o <<")">>]
             ELSE IF browseMatch # null
             THEN [type |-> "epic", projectKey |-> splitFirst(issueKey),
                   epicKey |-> issueKey, issueKey |-> issueKey,
                   label |-> <<"Epic/Issue ">> \o issueKey \o <<" (Project ">>
                             \o splitFirst(issueKey) \o <<")">>]
             ELSE IF projectMatch # null
             THEN projectResult(projectMatch[2])
             ELSE IF directKeyMatch # null
             THEN projectResult(directKeyMatch[2])
             ELSE null
        ELSE IF directKeyMatch # null
             THEN projectResult(directKeyMatch[2])
             ELSE null

\* the user fills the URL input
typeJiraUrl(input) ==
    /\ jiraUrlInput = undefined
    /\ jiraUrlInput' = input
    /\ UNCHANGED <<parsedResult, validateVars, axeVars, relayVars, exportVars, digestVars, tableVars, persistVars, ticketVars, storeVars, configVars>>

\* JiraCreateModal, the effect on jiraUrlInput: parseJiraUrl of the text when
\* there is any
parseUrlEffect ==
    /\ jiraUrlInput # undefined
    /\ parsedResult = undefined
    /\ parsedResult' = IF Text(jiraUrlInput) # <<>>
                       THEN parseJiraUrl(Text(jiraUrlInput)) ELSE null
    /\ UNCHANGED <<jiraUrlInput, validateVars, axeVars, relayVars, exportVars, digestVars, tableVars, persistVars, ticketVars, storeVars, configVars>>

NextUrl ==
    \/ /\ jiraUrlInput = undefined
       /\ \E input \in JiraUrlInputs : typeJiraUrl(input)
    \/ parseUrlEffect

SpecUrl == Init /\ [][NextUrl]_vars

\* ------------------------------------------------------ jira-proxy: the relay
\* a string as a JSON value, with its text
JSONText(text) == [kind |-> "string", text |-> text]

\* what express.json() can hand the handler as req.body: an object with any
\* of url, method, headers and body
ProxyBodies ==
    {[k \in keys |-> full[k]] :
        full \in [url : {"", "https://jira/rest/api/3/issue"},
                  method : {"GET", "POST"},
                  headers : {[Accept |-> "application/json"]},
                  body : {JSONObject([fields |-> JSONObject(<<>>)])}],
        keys \in SUBSET {"url", "method", "headers", "body"}}

\* response.statusText of each status the named URL answers with
StatusTexts ==
    [status \in {200, 201, 204, 304, 400, 404, 500, 503} |->
        CASE status = 200 -> "OK"
          [] status = 201 -> "Created"
          [] status = 204 -> "No Content"
          [] status = 304 -> "Not Modified"
          [] status = 400 -> "Bad Request"
          [] status = 404 -> "Not Found"
          [] status = 500 -> "Internal Server Error"
          [] status = 503 -> "Service Unavailable"]

\* what the forward can come to: fetch rejects, or the named URL answers with
\* a status, a content type and a body that is JSON or is not
Outcomes ==
    {[threw |-> TRUE]}
    \cup [threw : {FALSE},
          status : DOMAIN StatusTexts,
          contentType : {"application/json; charset=UTF-8", "text/html", "none"},
          wellFormed : BOOLEAN]

\* fetch rejects: the network failed, or a body goes with the method GET
fetchThrows(body, outcome) ==
    \/ outcome.threw
    \/ /\ "body" \in DOMAIN body
       /\ (IF Truthy(body, "method") THEN body.method ELSE "GET") = "GET"

\* contentType?.includes('application/json')
includesJson(contentType) == contentType = "application/json; charset=UTF-8"

\* response.json() on a body that is not JSON never throwing
jsonNeverThrows(outcome) == FALSE

\* response.json() throws: the body is not JSON
jsonThrows(outcome) == includesJson(outcome.contentType) /\ ~outcome.wellFormed

\* response.ok
ok(status) == 200 <= status /\ status <= 299

\* res.status(status).json(body): a response with status 204 or 304 goes out
\* with no body
send(status, body) ==
    [status |-> status,
     body |-> IF status \in {204, 304} THEN [empty |-> TRUE] ELSE body]

\* the handler of POST /proxy given req.body and what the forward comes to
proxy(body, outcome) ==
    IF ~Truthy(body, "url")
    THEN send(400, [error |-> "Missing URL parameter"])
    ELSE IF fetchThrows(body, outcome)
    THEN send(500, [ok |-> FALSE, status |-> 500,
                    statusText |-> "Internal Server Error",
                    data |-> JSONObject([error |-> JSONText("fetch failed")])])
    ELSE IF jsonThrows(outcome)
    THEN send(500, [ok |-> FALSE, status |-> 500,
                    statusText |-> "Internal Server Error",
                    data |-> JSONObject([error |-> JSONText("Unexpected token")])])
    ELSE send(outcome.status,
              [ok |-> ok(outcome.status), status |-> outcome.status,
               statusText |-> StatusTexts[outcome.status],
               data |-> IF includesJson(outcome.contentType)
                        THEN JSONObject([key |-> JSONText("K-1")])
                        ELSE JSONText("<html>")])

\* a POST /proxy arrives
postProxy(body) ==
    /\ relayRequest = undefined
    /\ relayRequest' = body
    /\ UNCHANGED <<upstream, relayResponse, clientResult,
                   validateVars, axeVars, urlVars, exportVars, digestVars, tableVars, persistVars, ticketVars, storeVars, configVars>>

\* the handler runs to its response; the forward, when there is one, comes
\* to outcome
handleProxy(outcome) ==
    /\ relayRequest # undefined
    /\ relayResponse = undefined
    /\ upstream' = IF Truthy(relayRequest, "url") THEN outcome ELSE undefined
    /\ relayResponse' = proxy(relayRequest, outcome)
    /\ UNCHANGED <<relayRequest, clientResult,
                   validateVars, axeVars, urlVars, exportVars, digestVars, tableVars, persistVars, ticketVars, storeVars, configVars>>

\* fetchWithProxy after the relay answered: response.json(), then the
\* Response-like object
fetchWithProxy ==
    /\ relayResponse # undefined
    /\ clientResult = undefined
    /\ clientResult' =
         IF relayResponse.body = [empty |-> TRUE]
         THEN [threw |-> "Unexpected end of JSON input"]
         ELSE [ok |-> Get(relayResponse.body, "ok"),
               status |-> Get(relayResponse.body, "status"),
               statusText |-> Get(relayResponse.body, "statusText")]
    /\ UNCHANGED <<relayRequest, upstream, relayResponse,
                   validateVars, axeVars, urlVars, exportVars, digestVars, tableVars, persistVars, ticketVars, storeVars, configVars>>

NextRelay ==
    \/ /\ relayRequest = undefined
       /\ \E body \in ProxyBodies : postProxy(body)
    \/ /\ relayResponse = undefined
       /\ \E outcome \in Outcomes : handleProxy(outcome)
    \/ fetchWithProxy

SpecRelay == Init /\ [][NextRelay]_vars

\* -------------------------------------------------- HTMLExport.generateHTML
\* what the issue form submits when the criterion and the priority count
ExportData ==
    {[page |-> page, title |-> "alt", criterionNumber |-> c.number, priority |-> c.priority] :
        page \in {"", "R&D"},
        c \in {[number |-> "1.4.10", priority |-> 1], [number |-> "1.4.2", priority |-> 3]}}

\* the strings compared, in the order String.prototype.localeCompare gives them
Collation == <<"", "1.4.10", "1.4.2", "R&D">>

localeCompare(a, b) ==
    (CHOOSE i \in 1..Len(Collation) : Collation[i] = a)
    - (CHOOSE i \in 1..Len(Collation) : Collation[i] = b)

\* the comparator sortIssues gives Array.prototype.sort
compare(a, b, by) ==
    CASE by = "page" -> localeCompare(a.page, b.page)
      [] by = "criteria" -> localeCompare(a.criterionNumber, b.criterionNumber)
      [] OTHER -> b.priority - a.priority

\* one step of the stable sort: x goes before the first element that has to
\* come after it
inserted(sorted, x, by) ==
    LET later == {i \in 1..Len(sorted) : compare(sorted[i], x, by) > 0}
        at == IF later = {} THEN Len(sorted) + 1
              ELSE CHOOSE i \in later : \A k \in later : i <= k
    IN  SubSeq(sorted, 1, at - 1) \o <<x>> \o SubSeq(sorted, at, Len(sorted))

RECURSIVE sortInto(_, _, _)
sortInto(sorted, issues, by) ==
    IF issues = <<>> THEN sorted
    ELSE sortInto(inserted(sorted, Head(issues), by), Tail(issues), by)

\* sortIssues: [...issues].sort(comparator), a stable sort
sortIssues(issues, by) == sortInto(<<>>, issues, by)

\* escapeHTML: textContent read back as innerHTML
escapeHTML(str) == IF str = "R&D" THEN "R&amp;D" ELSE str

\* issuesByPage.set(page, pageIssues)
setPage(map, page, pageIssues) ==
    IF \E k \in 1..Len(map) : map[k].page = page
    THEN [k \in 1..Len(map) |->
            IF map[k].page = page THEN [page |-> page, issues |-> pageIssues] ELSE map[k]]
    ELSE Append(map, [page |-> page, issues |-> pageIssues])

\* report.pages.forEach: the issues of each page, sorted
RECURSIVE issuesByPage(_, _, _, _)
issuesByPage(map, pages, issues, by) ==
    IF pages = <<>> THEN map
    ELSE issuesByPage(
            setPage(map, Head(pages),
                    sortIssues(SelectSeq(issues, LAMBDA issue : issue.page = Head(pages)), by)),
            Tail(pages), issues, by)

\* the issue-item of an issue: what the document shows of it
issueItem(issue) ==
    [title |-> issue.title, priority |-> issue.priority,
     criterion |-> issue.criterionNumber,
     created |-> getTime(issue.createdAt), updated |-> getTime(issue.updatedAt)]

\* generateHTML: the page sections of the document, each with its heading and
\* its issue-items
generateHTML(r, by) ==
    LET map == issuesByPage(<<>>, r.pages, r.issues, by)
    IN  [n \in 1..Len(map) |->
           [heading |-> escapeHTML(map[n].page),
            items |-> [k \in 1..Len(map[n].issues) |-> issueItem(map[n].issues[k])]]]

\* handleSortChange: the table changed its sort order
handleSortChange(newSortBy) ==
    /\ steps < MaxSteps
    /\ report # null
    /\ newSortBy # sortBy
    /\ sortBy' = newSortBy
    /\ steps' = steps + 1
    /\ last' = Ran("view", null, null, null, "")
    /\ UNCHANGED <<report, files, exported, clock, uuid, uiVars, html, configVars,
                   validateVars, axeVars, urlVars, relayVars, digestVars, tableVars, persistVars, ticketVars>>

\* downloadHTML: HTMLExport.downloadHTML(report, language, sortBy)
downloadHTML ==
    /\ steps < MaxSteps
    /\ report # null
    /\ html' = generateHTML(report, sortBy)
    /\ steps' = steps + 1
    /\ last' = Ran("html", null, null, null, "")
    /\ UNCHANGED <<report, files, exported, clock, uuid, uiVars, sortBy, configVars,
                   validateVars, axeVars, urlVars, relayVars, digestVars, tableVars, persistVars, ticketVars>>

NextExport ==
    \/ \E name \in Names : handleCreateReport(name)
    \/ \E data \in ExportData : handleSubmitIssueAdd(data)
    \/ \E k \in 1..MaxUuid, data \in ExportData :
         /\ report # null /\ k <= Len(report.issues)
         /\ handleSubmitIssueEdit(report.issues[k], data)
    \/ \E newSortBy \in {"priority", "page", "criteria"} : handleSortChange(newSortBy)
    \/ downloadHTML

SpecExport == Init /\ [][NextExport]_vars

\* ------------------------------------------------ weekly-report: the digest
MaxIssues == 3

\* the first and the last millisecond of a day of January 1970, counted from
\* day 0, Thursday 1 January
FirstMs(day) == day * MsPerDay
LastMs(day) == day * MsPerDay + (MsPerDay - 1)

\* the Saturdays 10 and 17 January and the Sundays that follow them
Saturdays == {9, 16}
Sundays == {10, 17}

\* the instants issues of the digested report were created at: the last
\* millisecond of a week and the first of the next one
CreationTimes == {LastMs(day) : day \in Saturdays} \cup {FirstMs(day) : day \in Sundays}
\* what toISOString wrote for each of them
isoOf == [ms \in CreationTimes |-> toISOString(ms)]
\* issue.createdAt: one of those, or a text that is no date
CreatedAts == {isoOf[ms] : ms \in CreationTimes} \cup {"yesterday"}
\* type Priority = 1 | 2 | 3
Priorities == {1, 2, 3}
\* what new Date() returns when the digest is asked for
DigestTimes == {LastMs(day) : day \in Saturdays} \cup {FirstMs(17), FirstMs(9) + MsPerHour}

\* new Date(issue.createdAt) as a number: NaN for an Invalid Date
parseDate(text) ==
    IF \E ms \in CreationTimes : isoOf[ms] = text
    THEN CHOOSE ms \in CreationTimes : isoOf[ms] = text
    ELSE NaN

\* Date.prototype.getDay in UTC: 0 is Sunday; 1 January 1970 was a Thursday
getDay(ms) == ((ms \div MsPerDay) + 4) % 7

\* getWeekRange(weekOffset), new Date() having returned the instant at
getWeekRange(weekOffset, at) ==
    LET currentDay == getDay(at)
        startOfCurrentWeek == ((at \div MsPerDay) - currentDay) * MsPerDay
        start == startOfCurrentWeek + (weekOffset * 7) * MsPerDay
        end == start + 6 * MsPerDay + (MsPerDay - 1)
    IN  [start |-> start, end |-> end]

\* the filter with issueDate < end
filterIssuesBeforeEnd(list, start, end) ==
    SelectSeq(list, LAMBDA issue :
        LET issueDate == parseDate(issue.createdAt)
        IN  issueDate # NaN /\ issueDate >= start /\ issueDate < end)

\* filterIssuesByDateRange: a comparison with an Invalid Date is false
filterIssuesByDateRange(list, start, end) ==
    SelectSeq(list, LAMBDA issue :
        LET issueDate == parseDate(issue.createdAt)
        IN  issueDate # NaN /\ issueDate >= start /\ issueDate <= end)

getWeeklyIssues(list, weekOffset, at) ==
    LET range == getWeekRange(weekOffset, at)
    IN  filterIssuesByDateRange(list, range.start, range.end)

\* countIssuesByPriority: the counters after the first n issues of the list
RECURSIVE countInto(_, _)
countInto(list, n) ==
    IF n = 0 THEN [blocker |-> 0, medium |-> 0, low |-> 0]
    ELSE LET counts == countInto(list, n - 1)
             issue == list[n]
         IN  IF issue.priority = 3 THEN [counts EXCEPT !.blocker = @ + 1]
             ELSE IF issue.priority = 2 THEN [counts EXCEPT !.medium = @ + 1]
             ELSE IF issue.priority = 1 THEN [counts EXCEPT !.low = @ + 1]
             ELSE counts

countIssuesByPriority(list) == countInto(list, Len(list))

\* Math.round(a / b * 100) of two natural numbers, b positive
roundPercent(a, b) == (200 * a + b) \div (2 * b)

calculatePercentageChange(currentWeekCount, previousWeekCount) ==
    IF previousWeekCount = 0
    THEN [direction |-> IF currentWeekCount > 0 THEN "up" ELSE "same", percentage |-> 100]
    ELSE LET change == currentWeekCount - previousWeekCount
             percentageChange ==
                 roundPercent(IF change < 0 THEN -change ELSE change, previousWeekCount)
         IN  IF change > 0 THEN [direction |-> "up", percentage |-> percentageChange]
             ELSE IF change < 0 THEN [direction |-> "down", percentage |-> percentageChange]
             ELSE [direction |-> "same", percentage |-> 0]

\* priorityParts: the counts above zero, each followed by its translated label
priorityParts(counts) ==
    (IF counts.blocker > 0 THEN <<<<counts.blocker, "areBlocker">>>> ELSE <<>>)
        \o (IF counts.medium > 0 THEN <<<<counts.medium, "areMedium">>>> ELSE <<>>)
        \o (IF counts.low > 0 THEN <<<<counts.low, "areLow">>>> ELSE <<>>)

\* generateWeeklyReport: what the markdown says, the list of criteria left
\* out.  new Date() returned at for the current week and later for the
\* previous one
generateWeeklyReport(name, list, at, later) ==
    LET currentWeekIssues == getWeeklyIssues(list, 0, at)
        previousWeekIssues == getWeeklyIssues(list, -1, later)
        currentWeekCount == Len(currentWeekIssues)
        previousWeekCount == Len(previousWeekIssues)
        change == calculatePercentageChange(currentWeekCount, previousWeekCount)
    IN  IF currentWeekCount = 0
        THEN [heading |-> name, body |-> "noIssuesThisWeek"]
        ELSE [heading |-> name, body |-> "thisWeek",
              total |-> currentWeekCount,
              ofWhich |-> priorityParts(countIssuesByPriority(currentWeekIssues)),
              comparison |->
                  IF previousWeekCount > 0
                  THEN [previous |-> change.direction, percentage |-> change.percentage,
                        ofWhich |-> priorityParts(countIssuesByPriority(previousWeekIssues))]
                  ELSE [previous |-> "noIssuesPreviousWeek"]]

\* an issue of the report digested, created at createdAt with a priority
datedIssue(createdAt, priority) ==
    /\ digestIssues' = Append(digestIssues, [createdAt |-> createdAt, priority |-> priority])
    /\ UNCHANGED <<today, markdown, validateVars, axeVars, urlVars, relayVars, exportVars,
                   tableVars, persistVars, ticketVars, storeVars, configVars>>

\* copyWeeklyReport: the digest of the current report is written to the clipboard
copyWeeklyReport(at, later) ==
    /\ markdown' = generateWeeklyReport("audit", digestIssues, at, later)
    /\ today' = at
    /\ UNCHANGED <<digestIssues, validateVars, axeVars, urlVars, relayVars, exportVars,
                   tableVars, persistVars, ticketVars, storeVars, configVars>>

NextDigest ==
    \/ /\ markdown = undefined
       /\ Len(digestIssues) < MaxIssues
       /\ \E createdAt \in CreatedAts, priority \in Priorities : datedIssue(createdAt, priority)
    \/ /\ markdown = undefined
       /\ \E at \in DigestTimes, later \in DigestTimes : later >= at /\ copyWeeklyReport(at, later)

SpecDigest == Init /\ [][NextDigest]_vars

\* --------------------------------------------- IssuesTable: sortedIssues
MaxRows == 3

\* the issues the table is given: those of ExportData, needsReview true,
\* false or missing
TableIssues ==
    {[page |-> data.page, criterionNumber |-> data.criterionNumber, priority |-> data.priority] :
        data \in ExportData}
    \cup {[page |-> data.page, criterionNumber |-> data.criterionNumber,
           priority |-> data.priority, needsReview |-> flag] :
            data \in ExportData, flag \in BOOLEAN}

\* issue.needsReview as a condition
needsReview(issue) == "needsReview" \in DOMAIN issue /\ issue.needsReview

\* the derived value with no copy of the prop: issuesCopy is the prop itself
sortedIssuesNoCopy(issues, showOnly, by) ==
    LET arrays == [prop |-> issues, filtered |-> SelectSeq(issues, needsReview)]
        issuesCopy == IF showOnly THEN "filtered" ELSE "prop"
        after == [arrays EXCEPT ![issuesCopy] = sortInto(<<>>, arrays[issuesCopy], by)]
    IN  [issues |-> after.prop, sortedIssues |-> after[issuesCopy]]

\* $derived.by: the arrays the computation holds, by name (prop the array of
\* the issues prop, copy its spread, filtered the array filter returns), and
\* the one issuesCopy refers to; Array.prototype.sort sorts that array in
\* place and returns it.  The result is the prop array after the call and
\* the array returned
sortedIssuesOf(issues, showOnly, by) ==
    LET arrays == [prop |-> issues, copy |-> issues, filtered |-> SelectSeq(issues, needsReview)]
        issuesCopy == IF showOnly THEN "filtered" ELSE "copy"
        after == [arrays EXCEPT ![issuesCopy] = sortInto(<<>>, arrays[issuesCopy], by)]
    IN  [issues |-> after.prop, sortedIssues |-> after[issuesCopy]]

\* the table rendered with the prop, the filter and the sort order given
render(issues, showOnly, by) ==
    LET derived == sortedIssuesOf(issues, showOnly, by)
    IN  /\ issuesProp' = derived.issues
        /\ sortedIssues' = derived.sortedIssues
        /\ showOnlyNeedsReview' = showOnly
        /\ tableSortBy' = by
        /\ UNCHANGED <<validateVars, axeVars, urlVars, relayVars, exportVars, digestVars,
                       persistVars, ticketVars, storeVars, configVars>>

\* App.svelte gives the table a new array with one more issue
setIssuesProp(issue) ==
    /\ Len(issuesProp) < MaxRows
    /\ render(Append(issuesProp, issue), showOnlyNeedsReview, tableSortBy)

\* IssuesTable handleSortChange: select#sortBy
selectSortBy(by) ==
    /\ by # tableSortBy
    /\ render(issuesProp, showOnlyNeedsReview, by)

\* the needs-review checkbox
toggleNeedsReview == render(issuesProp, ~showOnlyNeedsReview, tableSortBy)

NextTable ==
    \/ \E issue \in TableIssues : setIssuesProp(issue)
    \/ \E by \in {"priority", "page", "criteria"} : selectSortBy(by)
    \/ toggleNeedsReview

SpecTable == Init /\ [][NextTable]_vars

\* ------------------------------------- the persisted store and auto-save
MaxPending == 2
MaxEdits == 3

\* the report the store holds when the application starts, if any, and the
\* one an earlier version left in localStorage, if any
StoredReports == {undefined, createNewReport("stored", 0, 0)}
LegacyReports == {undefined, createNewReport("legacy", 0, 0)}

\* how an open, a read or a write of the store can end
Ends == {"success", "error"}
LoadEnds == {"success", "open error", "read error"}

\* JSON.parse(JSON.stringify(report)): the plain object the store is given
plain(r) == parse(stringify(r))

\* the effect whatever hasLoadedInitially is
autoSaveNoGuard(loaded, r, queue) ==
    IF r # null THEN Append(queue, [op |-> "put", value |-> plain(r)])
    ELSE Append(queue, [op |-> "delete"])

\* the body of the auto-save $effect: the transactions pending after it ran
\* with hasLoadedInitially and report as given
autoSaveEffect(loaded, r, queue) ==
    IF ~loaded THEN queue
    ELSE IF r # null THEN Append(queue, [op |-> "put", value |-> plain(r)])
    ELSE Append(queue, [op |-> "delete"])

\* what a run of the effect read: report only when it got past the guard
seenBy(loaded, r) == [loaded |-> loaded, report |-> IF loaded THEN r ELSE null]

\* the effect has to run again: a value it read has changed
EffectPending ==
    /\ mount # "off"
    /\ \/ hasLoadedInitially # effectSeen.loaded
       \/ effectSeen.loaded /\ report # effectSeen.report

\* the transaction the store completes next, picked from the newest
lastRequest(queue) == Len(queue)

\* the transaction the store completes next: readwrite transactions on one
\* object store complete in the order they were created
nextRequest(queue) == 1

\* the application starts in a browser profile: the component is created,
\* the effect runs for the first time and onMount begins
start(stored, legacy) ==
    /\ mount = "off"
    /\ idb' = stored
    /\ localStore' = legacy
    /\ profile' = [idb |-> stored, localStore |-> legacy]
    /\ requests' = autoSaveEffect(hasLoadedInitially, report, requests)
    /\ effectSeen' = seenBy(hasLoadedInitially, report)
    /\ mount' = "migrate"
    /\ UNCHANGED <<hasLoadedInitially, loadFailed, writeFailed, overlapped>>
    /\ UNCHANGED <<validateVars, axeVars, urlVars, relayVars, exportVars, digestVars, tableVars,
                   ticketVars, storeVars, configVars>>

\* onMount: await migrateFromLocalStorage(); a report in localStorage is
\* saved to the store and removed, a failure is logged
migrateFromLocalStorage(end) ==
    /\ mount = "migrate"
    /\ ~EffectPending
    /\ IF localStore = undefined
       THEN end = "success" /\ UNCHANGED <<idb, localStore, writeFailed>>
       ELSE IF end = "success"
            THEN idb' = plain(localStore) /\ localStore' = undefined /\ UNCHANGED writeFailed
            ELSE writeFailed' = TRUE /\ UNCHANGED <<idb, localStore>>
    /\ mount' = "load"
    /\ UNCHANGED <<profile, hasLoadedInitially, effectSeen, requests, loadFailed, overlapped>>
    /\ UNCHANGED <<validateVars, axeVars, urlVars, relayVars, exportVars, digestVars, tableVars,
                   ticketVars, storeVars, configVars>>

\* onMount: await loadCurrentReport(); an open error makes it return null, a
\* read error makes it reject, which onMount catches and logs
loadCurrentReport(end) ==
    /\ mount = "load"
    /\ ~EffectPending
    /\ report' = IF end = "success" /\ idb # undefined THEN idb ELSE report
    /\ loadFailed' = (end # "success")
    /\ mount' = IF end = "read error" THEN "finally" ELSE "sort"
    /\ UNCHANGED <<idb, localStore, profile, hasLoadedInitially, effectSeen, requests,
                   writeFailed, overlapped>>
    /\ UNCHANGED <<files, exported, clock, uuid, steps, last, uiVars>>
    /\ UNCHANGED <<validateVars, axeVars, urlVars, relayVars, exportVars, digestVars, tableVars,
                   ticketVars, configVars>>

\* onMount: await loadSortPreference(), in a profile that holds none
loadSortPreference ==
    /\ mount = "sort"
    /\ ~EffectPending
    /\ mount' = "finally"
    /\ UNCHANGED <<idb, localStore, profile, hasLoadedInitially, effectSeen, requests,
                   loadFailed, writeFailed, overlapped>>
    /\ UNCHANGED <<validateVars, axeVars, urlVars, relayVars, exportVars, digestVars, tableVars,
                   ticketVars, storeVars, configVars>>

\* onMount: finally { hasLoadedInitially = true }
finishMount ==
    /\ mount = "finally"
    /\ ~EffectPending
    /\ hasLoadedInitially' = TRUE
    /\ mount' = "done"
    /\ UNCHANGED <<idb, localStore, profile, effectSeen, requests, loadFailed, writeFailed,
                   overlapped>>
    /\ UNCHANGED <<validateVars, axeVars, urlVars, relayVars, exportVars, digestVars, tableVars,
                   ticketVars, storeVars, configVars>>

\* the auto-save $effect runs again, before any other event is handled
autoSave ==
    /\ EffectPending
    /\ requests' = autoSaveEffect(hasLoadedInitially, report, requests)
    /\ effectSeen' = seenBy(hasLoadedInitially, report)
    /\ overlapped' = (overlapped \/ Len(requests') >= 2)
    /\ UNCHANGED <<idb, localStore, profile, mount, hasLoadedInitially, loadFailed, writeFailed>>
    /\ UNCHANGED <<validateVars, axeVars, urlVars, relayVars, exportVars, digestVars, tableVars,
                   ticketVars, storeVars, configVars>>

\* a transaction of saveCurrentReport or deleteCurrentReport completes or
\* fails; the promise's rejection is logged
transactionDone(end) ==
    /\ requests # <<>>
    /\ ~EffectPending
    /\ LET n == nextRequest(requests)
           request == requests[n]
       IN  /\ idb' = IF end = "error" THEN idb
                     ELSE IF request.op = "put" THEN request.value ELSE undefined
           /\ requests' = SubSeq(requests, 1, n - 1) \o SubSeq(requests, n + 1, Len(requests))
    /\ writeFailed' = (writeFailed \/ end = "error")
    /\ UNCHANGED <<localStore, profile, mount, hasLoadedInitially, effectSeen, loadFailed,
                   overlapped>>
    /\ UNCHANGED <<validateVars, axeVars, urlVars, relayVars, exportVars, digestVars, tableVars,
                   ticketVars, storeVars, configVars>>

\* the user changes the report while the store is busy or idle: a handler
\* that assigns report
userEvent ==
    /\ mount # "off"
    /\ ~EffectPending
    /\ Len(requests) < MaxPending
    /\ steps < MaxEdits
    /\ \/ \E name \in Names : handleCreateReport(name)
       \/ \E data \in FormData : handleSubmitIssueAdd(data)
       \/ \E k \in 1..MaxUuid, data \in FormData :
            /\ report # null /\ k <= Len(report.issues)
            /\ handleSubmitIssueEdit(report.issues[k], data)
       \/ \E n \in Uuids : handleDeleteIssue(randomUUID(n))
       \/ \E raw \in RawConfigs : handleJiraConfigSave(raw)

NextPersist ==
    \/ \E stored \in StoredReports, legacy \in LegacyReports : start(stored, legacy)
    \/ \E end \in Ends : migrateFromLocalStorage(end)
    \/ \E end \in LoadEnds : loadCurrentReport(end)
    \/ loadSortPreference
    \/ finishMount
    \/ autoSave
    \/ \E end \in Ends : transactionDone(end)
    \/ userEvent

SpecPersist == Init /\ [][NextPersist]_vars

\* --------------------------------------------- filing a ticket for an issue
MaxDialogs == 2
MaxCalls == 2
MaxSetup == 2

\* JiraService.mapPriorityToJira
mapPriorityToJira(priority) ==
    IF priority = 3 THEN "Highest" ELSE IF priority = 2 THEN "High" ELSE "Medium"

\* JiraService.issueToJiraData, the parts the dialog's inputs start from; the
\* description is the text built from the issue's page
issueToJiraData(issue) ==
    [summary |-> "[A11y] " \o issue.title,
     description |-> "Page: " \o issue.page,
     issueType |-> "Bug",
     priority |-> IF "priority" \in DOMAIN issue
                  THEN mapPriorityToJira(issue.priority) ELSE "Medium",
     labels |-> "accessibility, wcag"]

\* what the user can put into an input of the dialog
FormEdits ==
    {[summary |-> ""], [summary |-> "s"], [description |-> "d"],
     [issueType |-> "Task"], [priority |-> "Low"], [labels |-> "a, b"]}

\* what the user can type as the URL or project key: nothing or a key
ProjectKeys == {"", "PROJ"}

\* the key the tracker gives the n-th ticket it creates
ticketKey(n) == "K-" \o ToString(n)

\* baseUrl.replace(/\/$/, '') of the base URLs a config can hold
withoutSlash(baseUrl) == IF baseUrl = "https://a/" THEN "https://a" ELSE baseUrl

\* JiraService.getTicketUrl
getTicketUrl(baseUrl, key) == withoutSlash(baseUrl) \o "/browse/" \o key

\* how a create request can fail: fetch rejects, the relay answers without
\* a tracker response, or the tracker answers non-2xx with an error body
Failures ==
    {[kind |-> "network"], [kind |-> "relay"],
     [kind |-> "tracker", errorMessages |-> "Summary is required", errors |-> "", statusText |-> "Bad Request"],
     [kind |-> "tracker", errorMessages |-> "", errors |-> "priority is invalid", statusText |-> "Bad Request"],
     [kind |-> "tracker", errorMessages |-> "", errors |-> "", statusText |-> "Unauthorized"],
     [kind |-> "tracker", errorMessages |-> "", errors |-> "", statusText |-> ""]}

\* the message of the Error createIssue throws
failureMessage(failure) ==
    IF failure.kind = "network" THEN "Failed to fetch"
    ELSE IF failure.kind = "relay" THEN "Cannot read properties of undefined"
    ELSE IF failure.errorMessages # "" THEN failure.errorMessages
    ELSE IF failure.errors # "" THEN failure.errors
    ELSE failure.statusText

\* the state of a JiraCreateModal just created for an issue; creationResult
\* is "null", "success" or "error"
JiraCreateModal(n, issue, jiraConfig) ==
    [instance |-> n,
     issue |-> issue,
     jiraConfig |-> jiraConfig,
     parsedResult |-> null,
     form |-> issueToJiraData(issue),
     isCreating |-> FALSE,
     creationResult |-> "null",
     errorMessage |-> "",
     createdTicket |-> null,
     ticketUrl |-> ""]

\* a create request is sent unless one for the issue is awaiting its response
createIssueOnce(pending, call) ==
    IF \E k \in 1..Len(pending) : pending[k].issueId = call.issueId
    THEN pending ELSE Append(pending, call)

\* service.createIssue(...): the request goes out through fetch at once
createIssue(pending, call) == Append(pending, call)

\* the submit button is enabled
CanSubmit(m) == ~m.isCreating /\ m.parsedResult # null /\ m.form.summary # ""

\* the dialog shows its form, not the success state
FormShown == modal # null /\ ~(modal.creationResult = "success" /\ modal.createdTicket # null)

appJiraVars == <<showJiraCreateModal, showJiraConfigModal, pendingJiraAction, jiraIssue>>

\* the create modal is rendered
Rendered(show, issue, r) == show /\ issue # null /\ r # null /\ Get(r, "jiraConfig") # undefined

\* the component after the app's state changed: created when the modal is
\* rendered anew, destroyed when it no longer is, kept otherwise
Mounted(show, issue, r) ==
    IF ~Rendered(show, issue, r) THEN null
    ELSE IF modal # null THEN modal
    ELSE JiraCreateModal(instances + 1, issue, r.jiraConfig)

Remount(show, issue, r) ==
    /\ modal' = Mounted(show, issue, r)
    /\ instances' = IF modal = null /\ modal' # null THEN instances + 1 ELSE instances

\* the report gets its first issues, with no modal open
setUp ==
    /\ ~showJiraCreateModal /\ ~showJiraConfigModal
    /\ steps < MaxSetup
    /\ \/ \E name \in Names : handleCreateReport(name)
       \/ \E data \in FormData : handleSubmitIssueAdd(data)

\* the create-ticket button of an issue's row
handleCreateJiraTicket(issue) ==
    /\ ~showJiraCreateModal /\ ~showJiraConfigModal
    /\ instances < MaxDialogs
    /\ report # null
    /\ issue \in Range(report.issues)
    /\ jiraIssue' = issue
    /\ IF ~IsConfigured(report)
       THEN /\ pendingJiraAction' = TRUE
            /\ showJiraConfigModal' = TRUE
            /\ UNCHANGED <<showJiraCreateModal, modal, instances>>
       ELSE /\ showJiraCreateModal' = TRUE
            /\ Remount(TRUE, issue, report)
            /\ UNCHANGED <<pendingJiraAction, showJiraConfigModal>>
    /\ UNCHANGED <<calls, tracker, storeVars, configVars>>
    /\ UNCHANGED <<validateVars, axeVars, urlVars, relayVars, exportVars, digestVars, tableVars,
                   persistVars>>

\* the config modal saves: the config is stored and, when a ticket was
\* waiting for it, the create modal opens
saveJiraConfig(raw) ==
    /\ showJiraConfigModal
    /\ raw.baseUrl # "" /\ raw.apiToken # "" /\ raw.userEmail # ""
    /\ \E now \in Now :
         /\ report' = IF report # null
                      THEN withConfig(report, handleSubmit(raw.baseUrl, raw.apiToken, raw.userEmail), now)
                      ELSE report
         /\ clock' = now
    /\ showJiraConfigModal' = FALSE
    /\ IF pendingJiraAction /\ jiraIssue # null
       THEN /\ pendingJiraAction' = FALSE
            /\ showJiraCreateModal' = TRUE
       ELSE UNCHANGED <<pendingJiraAction, showJiraCreateModal>>
    /\ Remount(showJiraCreateModal', jiraIssue, report')
    /\ UNCHANGED <<jiraIssue, calls, tracker>>
    /\ UNCHANGED <<files, exported, uuid, steps, last, uiVars, configVars>>
    /\ UNCHANGED <<validateVars, axeVars, urlVars, relayVars, exportVars, digestVars, tableVars,
                   persistVars>>

\* the config modal is cancelled
handleJiraConfigCancel ==
    /\ showJiraConfigModal
    /\ showJiraConfigModal' = FALSE
    /\ pendingJiraAction' = FALSE
    /\ jiraIssue' = null
    /\ UNCHANGED <<showJiraCreateModal, modal, instances, calls, tracker, storeVars, configVars>>
    /\ UNCHANGED <<validateVars, axeVars, urlVars, relayVars, exportVars, digestVars, tableVars,
                   persistVars>>

\* the user types into the URL input and the effect parses it
typeProjectKey(key) ==
    /\ FormShown
    /\ modal' = [modal EXCEPT !.parsedResult = IF key # "" THEN [projectKey |-> key] ELSE null]
    /\ UNCHANGED <<appJiraVars, instances, calls, tracker, storeVars, configVars>>
    /\ UNCHANGED <<validateVars, axeVars, urlVars, relayVars, exportVars, digestVars, tableVars,
                   persistVars>>

\* the user changes an input bound to summary, description, issueType,
\* priority or labels
editForm(edit) ==
    /\ FormShown
    /\ modal' = [modal EXCEPT !.form = Spread(modal.form, edit)]
    /\ UNCHANGED <<appJiraVars, instances, calls, tracker, storeVars, configVars>>
    /\ UNCHANGED <<validateVars, axeVars, urlVars, relayVars, exportVars, digestVars, tableVars,
                   persistVars>>

\* the form is submitted by its button, which is not disabled; handleSubmit
\* runs up to its await
submit ==
    /\ FormShown
    /\ CanSubmit(modal)
    /\ Len(tracker) + Len(calls) < MaxCalls
    /\ modal.parsedResult # null /\ modal.form.summary # ""
    /\ modal' = [modal EXCEPT !.isCreating = TRUE, !.creationResult = "null", !.errorMessage = ""]
    /\ calls' = createIssue(calls, [instance |-> modal.instance,
                                    issueId |-> modal.issue.id,
                                    baseUrl |-> modal.jiraConfig.baseUrl,
                                    projectKey |-> modal.parsedResult.projectKey,
                                    state |-> "sent"])
    /\ UNCHANGED <<appJiraVars, instances, tracker, storeVars, configVars>>
    /\ UNCHANGED <<validateVars, axeVars, urlVars, relayVars, exportVars, digestVars, tableVars,
                   persistVars>>

\* the tracker handles a request it received: it creates the ticket
trackerCreates(k) ==
    /\ k \in 1..Len(calls)
    /\ calls[k].state = "sent"
    /\ LET key == ticketKey(Len(tracker) + 1)
       IN  /\ tracker' = Append(tracker, [key |-> key, issueId |-> calls[k].issueId,
                                          instance |-> calls[k].instance])
           /\ calls' = [calls EXCEPT ![k] = Spread(@, [state |-> "created", key |-> key])]
    /\ UNCHANGED <<appJiraVars, modal, instances, storeVars, configVars>>
    /\ UNCHANGED <<validateVars, axeVars, urlVars, relayVars, exportVars, digestVars, tableVars,
                   persistVars>>

\* handleSubmit resuming with an error and starting the form afresh
settleAfresh(m, call) ==
    IF m = null \/ m.instance # call.instance THEN m
    ELSE IF call.state = "created"
    THEN [m EXCEPT !.createdTicket = [key |-> call.key],
                   !.ticketUrl = getTicketUrl(call.baseUrl, call.key),
                   !.creationResult = "success",
                   !.isCreating = FALSE]
    ELSE [m EXCEPT !.creationResult = "error",
                   !.errorMessage = failureMessage(call.failure),
                   !.form = issueToJiraData(m.issue),
                   !.isCreating = FALSE]

\* handleSubmit resumes after its await, in the component that sent the
\* request; a component that was destroyed meanwhile shows nothing
settle(m, call) ==
    IF m = null \/ m.instance # call.instance THEN m
    ELSE IF call.state = "created"
    THEN [m EXCEPT !.createdTicket = [key |-> call.key],
                   !.ticketUrl = getTicketUrl(call.baseUrl, call.key),
                   !.creationResult = "success",
                   !.isCreating = FALSE]
    ELSE [m EXCEPT !.creationResult = "error",
                   !.errorMessage = failureMessage(call.failure),
                   !.isCreating = FALSE]

\* the response of a request for which the tracker created a ticket arrives
respond(k) ==
    /\ k \in 1..Len(calls)
    /\ calls[k].state = "created"
    /\ modal' = settle(modal, calls[k])
    /\ calls' = SubSeq(calls, 1, k - 1) \o SubSeq(calls, k + 1, Len(calls))
    /\ UNCHANGED <<appJiraVars, instances, tracker, storeVars, configVars>>
    /\ UNCHANGED <<validateVars, axeVars, urlVars, relayVars, exportVars, digestVars, tableVars,
                   persistVars>>

\* a request fails on its way or at the tracker: no ticket is created and
\* createIssue throws
requestFails(k, failure) ==
    /\ k \in 1..Len(calls)
    /\ calls[k].state = "sent"
    /\ modal' = settle(modal, Spread(calls[k], [state |-> "failed", failure |-> failure]))
    /\ calls' = SubSeq(calls, 1, k - 1) \o SubSeq(calls, k + 1, Len(calls))
    /\ UNCHANGED <<appJiraVars, instances, tracker, storeVars, configVars>>
    /\ UNCHANGED <<validateVars, axeVars, urlVars, relayVars, exportVars, digestVars, tableVars,
                   persistVars>>

\* App's handleJiraCreateCancel
handleJiraCreateCancel ==
    /\ showJiraCreateModal' = FALSE
    /\ jiraIssue' = null
    /\ Remount(FALSE, null, report)
    /\ UNCHANGED <<showJiraConfigModal, pendingJiraAction, calls, tracker, storeVars, configVars>>
    /\ UNCHANGED <<validateVars, axeVars, urlVars, relayVars, exportVars, digestVars, tableVars,
                   persistVars>>

\* the Cancel button, disabled while the request is out
clickCancel ==
    /\ FormShown
    /\ ~modal.isCreating
    /\ handleJiraCreateCancel

\* handleKeydown with the Escape key
handleKeydown ==
    /\ modal # null
    /\ modal.creationResult # "success"
    /\ handleJiraCreateCancel

\* handleOverlayClick with a click on the overlay itself
handleOverlayClick ==
    /\ modal # null
    /\ modal.creationResult # "success"
    /\ handleJiraCreateCancel

\* the edit link next to the base URL: App's handleOpenJiraConfig
handleOpenJiraConfig ==
    /\ FormShown
    /\ instances < MaxDialogs
    /\ showJiraCreateModal' = FALSE
    /\ pendingJiraAction' = TRUE
    /\ showJiraConfigModal' = TRUE
    /\ Remount(FALSE, jiraIssue, report)
    /\ UNCHANGED <<jiraIssue, calls, tracker, storeVars, configVars>>
    /\ UNCHANGED <<validateVars, axeVars, urlVars, relayVars, exportVars, digestVars, tableVars,
                   persistVars>>

\* the Close button of the success state: handleSuccessClose, then App's
\* handleJiraCreateSuccess
handleSuccessClose ==
    /\ modal # null
    /\ ~FormShown
    /\ modal.createdTicket # null /\ modal.ticketUrl # ""
    /\ \E now \in Now :
         /\ report' = IF report # null /\ jiraIssue # null
                      THEN withTicket(report, jiraIssue.id,
                                      [jiraTicketUrl |-> modal.ticketUrl,
                                       jiraTicketKey |-> modal.createdTicket.key], now)
                      ELSE report
         /\ clock' = now
    /\ showJiraCreateModal' = FALSE
    /\ jiraIssue' = null
    /\ Remount(FALSE, null, report')
    /\ UNCHANGED <<showJiraConfigModal, pendingJiraAction, calls, tracker>>
    /\ UNCHANGED <<files, exported, uuid, steps, last, uiVars, configVars>>
    /\ UNCHANGED <<validateVars, axeVars, urlVars, relayVars, exportVars, digestVars, tableVars,
                   persistVars>>

NextTicket ==
    \/ setUp
    \/ \E k \in 1..MaxUuid :
         /\ report # null /\ k <= Len(report.issues)
         /\ handleCreateJiraTicket(report.issues[k])
    \/ \E raw \in RawConfigs : saveJiraConfig(raw)
    \/ handleJiraConfigCancel
    \/ \E key \in ProjectKeys : typeProjectKey(key)
    \/ \E edit \in FormEdits : editForm(edit)
    \/ submit
    \/ \E k \in 1..MaxCalls : trackerCreates(k)
    \/ \E k \in 1..MaxCalls, failure \in Failures : requestFails(k, failure)
    \/ \E k \in 1..MaxCalls : respond(k)
    \/ clickCancel
    \/ handleKeydown
    \/ handleOverlayClick
    \/ handleOpenJiraConfig
    \/ handleSuccessClose

SpecTicket == Init /\ [][NextTicket]_vars

\* ------------------------------------------------------------- properties
IdsOf(r) == {r.issues[k].id : k \in 1..Len(r.issues)}
PagesUsed(r) == {r.issues[k].page : k \in 1..Len(r.issues)}
CopyOf(r, id) == r.issues[CHOOSE k \in 1..Len(r.issues) : r.issues[k].id = id]
CopiesOf(r, id) == Cardinality({k \in 1..Len(r.issues) : r.issues[k].id = id})
UpdatedAt(r, id) == getTime(CopyOf(r, id).updatedAt)
NoDuplicates(s) == \A j, k \in 1..Len(s) : s[j] = s[k] => j = k
Merged == last.op = "merge"

\* C1: a merge holds exactly one issue for every id of either report and no
\* other issue; an id of one report only keeps that report's copy, and an id
\* of both keeps the copy whose updatedAt is later.
C1_MergeUnion ==
    Merged =>
        LET A == last.report1
            B == last.report2
        IN  /\ IdsOf(report) = IdsOf(A) \cup IdsOf(B)
            /\ \A id \in IdsOf(report) :
                 /\ CopiesOf(report, id) = 1
                 /\ id \notin IdsOf(B) => CopyOf(report, id) = CopyOf(A, id)
                 /\ id \notin IdsOf(A) => CopyOf(report, id) = CopyOf(B, id)
                 /\ id \in IdsOf(A) \cap IdsOf(B) =>
                      /\ UpdatedAt(A, id) > UpdatedAt(B, id)
                           => CopyOf(report, id) = CopyOf(A, id)
                      /\ UpdatedAt(B, id) > UpdatedAt(A, id)
                           => CopyOf(report, id) = CopyOf(B, id)

\* a merge where an id of both reports has the later, different copy in the
\* second report
C1_Witness ==
    /\ Merged
    /\ \E id \in IdsOf(last.report1) \cap IdsOf(last.report2) :
         /\ UpdatedAt(last.report2, id) > UpdatedAt(last.report1, id)
         /\ CopyOf(last.report2, id).page # CopyOf(last.report1, id).page

\* the merge of the same two reports taken in the other order
Swapped == mergeReports(last.report2, last.report1, last.arg, uuid, clock)
IssuesOf(r) == Range(r.issues)
TiedIds(A, B) ==
    {id \in IdsOf(A) \cap IdsOf(B) : UpdatedAt(A, id) = UpdatedAt(B, id)}

\* C2 as stated: merging in either order gives the same issues.
C2_Commutative ==
    Merged =>
        /\ IssuesOf(report) = IssuesOf(Swapped)
        /\ Len(report.issues) = Len(Swapped.issues)

\* C2: merging in either order gives the same ids, and the same issue for
\* every id except an id both reports hold with equal updatedAt, of which
\* each merge keeps the copy of its own first report.
C2_CommutativeButTies ==
    Merged =>
        /\ IdsOf(report) = IdsOf(Swapped)
        /\ Len(report.issues) = Len(Swapped.issues)
        /\ \A id \in IdsOf(report) :
             IF id \in TiedIds(last.report1, last.report2)
             THEN /\ CopyOf(report, id) = CopyOf(last.report1, id)
                  /\ CopyOf(Swapped, id) = CopyOf(last.report2, id)
             ELSE CopyOf(report, id) = CopyOf(Swapped, id)

\* a merge of two reports that hold different copies of an id, one later
C2_Witness ==
    /\ Merged
    /\ \E id \in IdsOf(last.report1) \cap IdsOf(last.report2) :
         /\ UpdatedAt(last.report1, id) > UpdatedAt(last.report2, id)
         /\ CopyOf(last.report1, id).page # CopyOf(last.report2, id).page

\* C3 as stated: a report merged with itself gives its own issues and pages.
C3_SelfMerge ==
    Merged /\ last.report1 = last.report2 =>
        /\ report.issues = last.report1.issues
        /\ report.pages = last.report1.pages

\* C4 as stated: adding an issue and deleting it again gives the pages back.
C4_AddDelete ==
    last.op = "add-delete" => report.pages = last.pre.pages

\* the pages after adding an issue of page p to R and deleting it again
PagesAfterAddDelete(R, p) ==
    LET added == IF p \in Range(R.pages) THEN R.pages ELSE Append(R.pages, p)
    IN  SelectSeq(added, LAMBDA page : page \in PagesUsed(R))

\* C4: adding an issue to R and deleting it again leaves R's pages, with the
\* page of the issue after them if they lack it, less every page that no
\* issue of R is on.
C4_AddDeletePrunes ==
    last.op = "add-delete" =>
        /\ report.pages = PagesAfterAddDelete(last.pre, last.report1.page)
        /\ report.issues = last.pre.issues

\* an issue added to a report with a page none of its issues is on, and
\* deleted again
C4_Witness ==
    /\ last.op = "add-delete"
    /\ Range(last.pre.pages) \ PagesUsed(last.pre) # {}
    /\ last.pre.issues # <<>>

\* C5: the pages of a report hold every page its issues are on.
C5_PagesSuperset ==
    report # null => PagesUsed(report) \subseteq Range(report.pages)

\* C7: a merged report has an id, createdAt and updatedAt of its own, the
\* name given, and as pages both page lists and the pages of its issues,
\* each once.
C7_MergedReport ==
    Merged =>
        /\ report.id \notin {last.report1.id, last.report2.id}
        /\ \A n \in 1..Len(exported) : report.id # exported[n].id
        /\ report.createdAt = toISOString(clock)
        /\ report.updatedAt = toISOString(clock)
        /\ report.name = last.arg
        /\ Range(report.pages) =
             Range(last.report1.pages) \cup Range(last.report2.pages) \cup PagesUsed(report)
        /\ NoDuplicates(report.pages)

\* a merge of two reports that share a page, at an instant after both were
\* written
C7_Witness ==
    /\ Merged
    /\ Range(last.report1.pages) \cap Range(last.report2.pages) # {}
    /\ last.report1.pages # last.report2.pages
    /\ getTime(report.updatedAt) > getTime(last.report1.updatedAt)

\* C8 as stated: of two copies with the same id and updatedAt the second
\* report's survives.
C8_TieKeepsSecond ==
    Merged =>
        \A id \in TiedIds(last.report1, last.report2) :
            CopyOf(report, id) = CopyOf(last.report2, id)

\* C8: of two copies with the same id and updatedAt the first report's
\* survives.
C8_TieKeepsFirst ==
    Merged =>
        \A id \in TiedIds(last.report1, last.report2) :
            CopyOf(report, id) = CopyOf(last.report1, id)

\* a merge of two reports holding different copies with the same id and
\* updatedAt
C8_Witness ==
    /\ Merged
    /\ \E id \in TiedIds(last.report1, last.report2) :
         CopyOf(last.report1, id) # CopyOf(last.report2, id)

\* what C6 calls complete: the three credentials all present
Complete(config) ==
    /\ config # undefined
    /\ config.baseUrl # "" /\ config.apiToken # "" /\ config.userEmail # ""

\* C6: a merge keeps the first report's config if that is complete, else the
\* second's if that is complete, else the first's if there is one, else the
\* second's, else none.
C6_ConfigSelection ==
    merged # null =>
        Get(merged, "jiraConfig") =
            IF Complete(config1) THEN config1
            ELSE IF Complete(config2) THEN config2
            ELSE IF config1 # undefined THEN config1
            ELSE config2

\* a merge of a report with an incomplete config and one with a complete
\* config
C6_Witness ==
    /\ merged # null
    /\ config1 # undefined /\ ~Complete(config1)
    /\ Complete(config2)

\* C9 as stated: no update, ticket reference or merge changes the id of an
\* issue.
C9_IdImmutable ==
    [][/\ last'.op \in {"update", "ticket"} =>
            /\ Len(report'.issues) = Len(report.issues)
            /\ \A k \in 1..Len(report.issues) :
                 report'.issues[k].id = report.issues[k].id
       /\ last'.op = "merge" =>
            IssuesOf(report') \subseteq IssuesOf(last'.report1) \cup IssuesOf(last'.report2)
      ]_vars

HasKind(value, key, kind) ==
    /\ key \in DOMAIN value.props
    /\ value.props[key].kind = kind

\* what C11 calls a report: an object with four strings and two arrays
WellShaped(value) ==
    /\ value.kind = "object"
    /\ \A key \in {"id", "name", "createdAt", "updatedAt"} : HasKind(value, key, "string")
    /\ \A key \in {"pages", "issues"} : HasKind(value, key, "array")

\* C11: loadReportFromFile resolves, and with the parsed value itself, exactly
\* when the value is a non-null object whose id, name, createdAt and updatedAt
\* are strings and whose pages and issues are arrays; it rejects every other
\* value, and what the issues array holds plays no part
C11_Validate ==
    loadResult.state # "pending" =>
        IF WellShaped(parsedValue)
        THEN loadResult = [state |-> "resolved", value |-> parsedValue]
        ELSE loadResult = [state |-> "rejected"]

\* a report whose only issue is not an object was accepted as it is
C11_Witness ==
    /\ loadResult.state = "resolved"
    /\ loadResult.value.props.issues.items # <<>>
    /\ loadResult.value.props.issues.items[1].kind = "number"

\* ---------------------------------------------------------------- C12
RequiredKeys == {"id", "name", "pages", "issues", "createdAt", "updatedAt"}

\* the file is not JSON, or is a document validateReport turns down
BadFile(file) ==
    \/ file = Unparsable
    \/ ~(RequiredKeys \subseteq {file[n][1] : n \in 1..Len(file)})

\* handleFileUpload ran in this step and was given file
Uploaded(file) ==
    /\ steps' = steps + 1
    /\ last'.op \in {"upload", "alert"}
    /\ last'.report2 = file

\* C12: an upload of a file that is unparsable or fails validateReport ends
\* in the alert and leaves the report, the page filter and the form state
\* (open or not, and the issue being edited) as they were
C12_ImportAborted ==
    [][\A file \in ForeignFiles :
          Uploaded(file) /\ BadFile(file) =>
              /\ last'.op = "alert"
              /\ UNCHANGED <<report, selectedPage, showAddForm, editingIssue>>]_vars

\* a bad file was turned down while a report was loaded, a page selected and
\* the form open on one of its issues
C12_Witness ==
    /\ last.op = "alert"
    /\ BadFile(last.report2)
    /\ report # null
    /\ selectedPage # "__all__"
    /\ showAddForm
    /\ editingIssue # null

\* ---------------------------------------------------------------- C13
\* the tag is 'wcag' followed by digits only, three or more of them
IsCriterionTag(tag) ==
    \E rest \in {SubSeq(tag, 5, Len(tag))} :
        /\ tag = wcag \o rest
        /\ Len(rest) >= 3
        /\ Range(rest) \subseteq Digits

\* d1.d2.rest of the digits of a criterion tag
Dotted(tag) == <<tag[5], ".", tag[6], ".">> \o SubSeq(tag, 7, Len(tag))

\* C13: extractCriterionNumber returns d1.d2.rest of the first tag of its
\* list that is 'wcag' followed only by three or more digits, and null when
\* the list has no such tag; a level tag (wcag2a, wcag2aa, wcag21aa) is never
\* the one it answers with
C13_Extract ==
    extracted # undefined =>
        LET hits == {n \in 1..Len(wcagTags) : IsCriterionTag(wcagTags[n])}
        IN  IF hits = {} THEN extracted = null
            ELSE /\ extracted # null
                 /\ extracted = Dotted(wcagTags[CHOOSE n \in hits : \A k \in hits : n <= k])

\* a level tag came first and the criterion tag after it was the one taken
C13_Witness ==
    /\ extracted # undefined
    /\ Len(wcagTags) = 2
    /\ wcagTags[1] = wcag \o <<"2", "1", "a", "a">>
    /\ wcagTags[2] = wcag \o <<"1", "3", "1", "2">>
    /\ extracted = <<"1", ".", "3", ".", "1", "2">>

\* ---------------------------------------------------------------- C14
Letters == Range(LowerCase) \cup Range(UpperCase)
LettersAndDigits == Letters \cup Digits

\* the longest run of characters of a set that a segment starts with
RECURSIVE LeadingIn(_, _)
LeadingIn(segment, set) ==
    IF segment = <<>> \/ Head(segment) \notin set THEN <<>>
    ELSE <<Head(segment)>> \o LeadingIn(Tail(segment), set)

\* the project key a segment starts with, <<>> when it starts with none
KeyOf(segment) ==
    LET run == LeadingIn(segment, LettersAndDigits)
    IN  IF Len(run) >= 2 /\ run[1] \in Letters THEN run ELSE <<>>

\* KEY-N at the start of a segment, <<>> when it does not start so
IssueKeyOf(segment) ==
    LET key == KeyOf(segment)
        after == SubSeq(segment, Len(key) + 1, Len(segment))
    IN  IF key # <<>> /\ after # <<>> /\ Head(after) = "-"
           /\ LeadingIn(Tail(after), Digits) # <<>>
        THEN key \o <<"-">> \o LeadingIn(Tail(after), Digits)
        ELSE <<>>

\* the segment is the word, whatever the case of its letters
Reads(segment, word) ==
    /\ Len(segment) = Len(word)
    /\ \A i \in 1..Len(word) : segment[i] \in {word[i], toUpperCase(word[i])}

\* .../projects/KEY/boards/N from the i-th segment on
BoardAt(segments, i) ==
    /\ i + 3 <= Len(segments)
    /\ Reads(segments[i], <<"p", "r", "o", "j", "e", "c", "t", "s">>)
    /\ KeyOf(segments[i + 1]) = segments[i + 1]
    /\ Reads(segments[i + 2], <<"b", "o", "a", "r", "d", "s">>)
    /\ LeadingIn(segments[i + 3], Digits) # <<>>

\* .../browse/KEY-N from the i-th segment on
BrowseAt(segments, i) ==
    /\ i + 1 <= Len(segments)
    /\ Reads(segments[i], <<"b", "r", "o", "w", "s", "e">>)
    /\ IssueKeyOf(segments[i + 1]) # <<>>

\* .../projects/KEY from the i-th segment on
ProjectAt(segments, i) ==
    /\ i + 1 <= Len(segments)
    /\ Reads(segments[i], <<"p", "r", "o", "j", "e", "c", "t", "s">>)
    /\ KeyOf(segments[i + 1]) # <<>>

\* what C14 says of an input: board, then epic, then project, among the path
\* shapes of a URL; project for a bare key; otherwise nothing
Classified(input) ==
    LET segments == input.segments
        boards == {i \in 1..Len(segments) : BoardAt(segments, i)}
        browses == {i \in 1..Len(segments) : BrowseAt(segments, i)}
        projects == {i \in 1..Len(segments) : ProjectAt(segments, i)}
    IN  IF input.absolute
        THEN IF boards # {}
             THEN [type |-> "board",
                   projectKey |-> segments[Least(boards) + 1],
                   boardId |-> LeadingIn(segments[Least(boards) + 3], Digits)]
             ELSE IF browses # {}
             THEN [type |-> "epic",
                   projectKey |-> KeyOf(segments[Least(browses) + 1]),
                   epicKey |-> IssueKeyOf(segments[Least(browses) + 1])]
             ELSE IF projects # {}
             THEN [type |-> "project", projectKey |-> KeyOf(segments[Least(projects) + 1])]
             ELSE null
        ELSE IF /\ Len(segments) = 1 /\ input.query = <<>>
                /\ KeyOf(segments[1]) = segments[1]
             THEN [type |-> "project", projectKey |-> segments[1]]
             ELSE null

\* the fields of a result that C14 names
Named(result) ==
    IF result = null THEN null
    ELSE [k \in DOMAIN result \ {"label", "issueKey"} |-> result[k]]

\* the input with every letter of its keys in upper case
InUpperCase(input) ==
    [input EXCEPT !.segments =
        [n \in 1..Len(input.segments) |->
            IF \E word \in {<<"p", "r", "o", "j", "e", "c", "t", "s">>, <<"b", "o", "a", "r", "d", "s">>, <<"b", "r", "o", "w", "s", "e">>} : Reads(input.segments[n], word)
            THEN input.segments[n]
            ELSE [i \in 1..Len(input.segments[n]) |-> toUpperCase(input.segments[n][i])]]]

TypeOf(result) == IF result = null THEN "none" ELSE result.type

\* C14: parseJiraUrl answers board with projectKey and boardId for a URL
\* whose path has /projects/KEY/boards/N, else epic with projectKey and
\* epicKey for a path with /browse/KEY-N, else project for a path with
\* /projects/KEY or for a bare key that is no URL, else null; and the input
\* with its keys in upper case is classified the same
C14_Classify ==
    parsedResult # undefined =>
        /\ Named(parsedResult) = Classified(jiraUrlInput)
        /\ TypeOf(parseJiraUrl(Text(InUpperCase(jiraUrlInput)))) = TypeOf(parsedResult)

\* a lower-case issue key under /browse/ after a /projects/KEY was taken as
\* an epic
C14_Witness ==
    /\ parsedResult # undefined
    /\ parsedResult # null
    /\ parsedResult.type = "epic"
    /\ parsedResult.projectKey = <<"a", "b">>
    /\ ProjectAt(jiraUrlInput.segments, 1)

\* a bare lower-case key was taken as a project
C14_WitnessBareKey ==
    /\ parsedResult # undefined
    /\ parsedResult # null
    /\ ~jiraUrlInput.absolute
    /\ parsedResult.projectKey = <<"a", "b">>

\* ---------------------------------------------------------------- C15
\* the forward was made and failed: fetch rejected, or reading the body threw
ForwardFailed ==
    /\ upstream # undefined
    /\ \/ upstream.threw
       \/ /\ "body" \in DOMAIN relayRequest
          /\ ("method" \notin DOMAIN relayRequest \/ relayRequest.method = "GET")
       \/ /\ upstream.contentType = "application/json; charset=UTF-8"
          /\ ~upstream.wellFormed

\* C15: when the forward fails, fetch rejecting or the read of the response
\* throwing, POST /proxy answers 500 with the body {ok: false, status: 500,
\* statusText, data: {error}}
C15_ForwardFailure ==
    relayResponse # undefined /\ ForwardFailed =>
        /\ relayResponse.status = 500
        /\ DOMAIN relayResponse.body = {"ok", "status", "statusText", "data"}
        /\ relayResponse.body.ok = FALSE
        /\ relayResponse.body.status = 500
        /\ relayResponse.body.statusText = "Internal Server Error"
        /\ DOMAIN relayResponse.body.data.props = {"error"}

\* a response that said it was JSON and was not came back as the 500
C15_Witness ==
    /\ relayResponse # undefined
    /\ upstream # undefined
    /\ ~upstream.threw
    /\ upstream.status = 200
    /\ ~upstream.wellFormed
    /\ relayResponse.status = 500

\* ---------------------------------------------------------------- C16
\* the named URL answered and the answer was read
Answered == upstream # undefined /\ ~ForwardFailed

\* C16: for every forward the named URL answers, the relay's HTTP status and
\* the status field of its body are the upstream status, and ok is true
\* exactly for a 2xx status
C16_StatusUnmodified ==
    relayResponse # undefined /\ Answered =>
        /\ relayResponse.status = upstream.status
        /\ {"ok", "status"} \subseteq DOMAIN relayResponse.body
        /\ relayResponse.body.status = upstream.status
        /\ relayResponse.body.ok = (upstream.status \in 200..299)

\* ---------------------------------------------------------------- C17
\* C17: whatever JSON body POST /proxy is sent, the response is an object
\* with the four fields ok, status, statusText and data
C17_Envelope ==
    relayResponse # undefined =>
        DOMAIN relayResponse.body = {"ok", "status", "statusText", "data"}

\* ---------------------------------------------------------------- C18
\* handleJiraCreateSuccess ran in this step
TicketStored == steps' = steps + 1 /\ last'.op = "ticket"

\* C18: when the success dialog of a filed ticket is closed, the issue of
\* that id gets the ticket URL and key and the updatedAt of that moment and
\* keeps its other properties; every other issue, the pages and the tracker
\* config of the report stay as they were
C18_TicketOnIssue ==
    [][TicketStored =>
          /\ Len(report'.issues) = Len(report.issues)
          /\ \A k \in 1..Len(report.issues) :
                IF report.issues[k].id = last'.arg
                THEN /\ \E ticket \in Tickets :
                          /\ report'.issues[k].jiraTicketUrl = ticket.jiraTicketUrl
                          /\ report'.issues[k].jiraTicketKey = ticket.jiraTicketKey
                     /\ report'.issues[k].updatedAt = toISOString(clock')
                     /\ \A key \in {"id", "page", "title", "createdAt"} :
                          report'.issues[k][key] = report.issues[k][key]
                ELSE report'.issues[k] = report.issues[k]
          /\ report'.pages = report.pages
          /\ report'.jiraConfig = report.jiraConfig]_vars

\* a ticket was stored on one of two issues, the other has none
C18_Witness ==
    /\ last.op = "ticket"
    /\ Len(report.issues) = 2
    /\ \E k \in 1..2 :
         /\ report.issues[k].id = last.arg
         /\ "jiraTicketKey" \in DOMAIN report.issues[k]
         /\ "jiraTicketKey" \notin DOMAIN report.issues[3 - k]

\* ---------------------------------------------------------------- C19
\* how many of the issues of a page show as the item
IssuesShownAs(r, page, item) ==
    Cardinality({k \in 1..Len(r.issues) :
                   r.issues[k].page = page /\ issueItem(r.issues[k]) = item})

\* how many times the item stands in the sections of a page
ItemsIn(doc, page, item) ==
    Cardinality({<<n, k>> \in (1..Len(doc)) \X (1..MaxUuid) :
                   /\ doc[n].heading = escapeHTML(page)
                   /\ k <= Len(doc[n].items)
                   /\ doc[n].items[k] = item})

\* the item a comes no later than the item b in the sort order
InOrder(a, b, by) ==
    CASE by = "criteria" -> localeCompare(a.criterion, b.criterion) <= 0
      [] by = "priority" -> a.priority >= b.priority
      [] OTHER -> TRUE

\* C19: the exported document holds every issue of the report exactly once,
\* in the section of its own page, and the issues of each section stand in
\* the sort order chosen (page, criterion number, or priority descending)
C19_Export ==
    last.op = "html" =>
        /\ \A k \in 1..Len(report.issues) :
              ItemsIn(html, report.issues[k].page, issueItem(report.issues[k]))
                = IssuesShownAs(report, report.issues[k].page, issueItem(report.issues[k]))
        /\ \A n \in 1..Len(html) : \A k \in 1..(Len(html[n].items) - 1) :
              InOrder(html[n].items[k], html[n].items[k + 1], sortBy)

\* the same with no issue on a page its report does not list
C19_ExportListedPages ==
    last.op = "html" /\ PagesUsed(report) \subseteq Range(report.pages) => C19_Export

\* ---- C20
\* the week, Sunday to Saturday, an instant is in, counted from the week of
\* 1 January 1970
WeekOf(ms) == ((ms \div MsPerDay) + 4) \div 7
\* the issues of the report created in the week the digest was asked in
CreatedThisWeek ==
    {k \in 1..Len(digestIssues) :
        \E ms \in CreationTimes : /\ digestIssues[k].createdAt = isoOf[ms]
                                  /\ WeekOf(ms) = WeekOf(today)}
RECURSIVE SumOfParts(_)
SumOfParts(parts) == IF parts = <<>> THEN 0 ELSE Head(parts)[1] + SumOfParts(Tail(parts))

Deleted == steps' = steps + 1 /\ last'.op \in {"delete", "add-delete"}
\* deleteIssue left no issue with the id and every other issue as it was, in
\* the order they were in
OthersKept(before, after, issueId) ==
    /\ \A k \in 1..Len(after.issues) : after.issues[k].id # issueId
    /\ \E kept \in SUBSET (1..Len(before.issues)) :
         /\ kept = {k \in 1..Len(before.issues) : before.issues[k].id # issueId}
         /\ Len(after.issues) = Cardinality(kept)
         /\ \A n \in 1..Len(after.issues) :
              \E k \in kept : /\ Cardinality({j \in kept : j <= k}) = n
                              /\ after.issues[n] = before.issues[k]

\* C21 as stated: deleteIssue removes every issue with the id, leaves the
\* other issues unchanged and in order, and sets pages to exactly the pages
\* the remaining issues are on.
C21_Delete ==
    [][Deleted => /\ OthersKept(report, report', last'.arg)
                  /\ Range(report'.pages) = PagesUsed(report')]_vars

\* C21 for reports whose pages hold every page their issues are on
C21_DeleteListedPages ==
    [][(Deleted /\ PagesUsed(report) \subseteq Range(report.pages)) =>
           /\ OthersKept(report, report', last'.arg)
           /\ Range(report'.pages) = PagesUsed(report')
           /\ Len(report'.pages) = Cardinality(PagesUsed(report'))]_vars

\* C21: the issues deleteIssue keeps, whatever the pages
C21_DeleteIssues == [][Deleted => OthersKept(report, report', last'.arg)]_vars

\* ---- C22
\* a step in which updateIssue ran on an id the report holds
Updated ==
    /\ steps' = steps + 1
    /\ last'.op = "update"
    /\ last'.arg \in IdsOf(report)

\* C22: an updateIssue on an id the report holds sets updatedAt of the
\* issues with that id, and of the report, to the instant of the call,
\* whatever updatedAt the update carries, and leaves updatedAt of every other
\* issue as it was; no issue's updatedAt decreases (new Date() never going
\* backwards)
C22_UpdateTouches ==
    [][Updated =>
         /\ Len(report'.issues) = Len(report.issues)
         /\ report'.updatedAt = toISOString(clock')
         /\ \A k \in 1..Len(report.issues) :
              /\ report.issues[k].id = last'.arg =>
                   report'.issues[k].updatedAt = toISOString(clock')
              /\ report.issues[k].id # last'.arg =>
                   report'.issues[k].updatedAt = report.issues[k].updatedAt
              /\ ~GreaterThan(getTime(report.issues[k].updatedAt),
                              getTime(report'.issues[k].updatedAt))]_vars

\* an update that carried an updatedAt earlier than the call has run on one
\* of two issues, and the other issue is older
C22_Witness ==
    /\ last.op = "update"
    /\ "updatedAt" \in DOMAIN last.report1
    /\ getTime(last.report1.updatedAt) < clock
    /\ report # null
    /\ \E j, k \in 1..Len(report.issues) :
         /\ report.issues[j].id = last.arg
         /\ report.issues[j].updatedAt = toISOString(clock)
         /\ report.issues[k].id # last.arg
         /\ getTime(report.issues[k].updatedAt) < clock

\* ---- C23
\* C23: no report reached from createNewReport by addIssue, updateIssue (with
\* any partial update), deleteIssue and mergeReports, the current one or one
\* written to a file, lists a page name twice
C23_PagesUnique ==
    /\ report # null => NoDuplicates(report.pages)
    /\ \A k \in 1..Len(exported) : NoDuplicates(exported[k].pages)

\* a merge of two reports that both list a page gave a report of two pages
C23_Witness ==
    /\ last.op = "merge"
    /\ Range(last.report1.pages) \cap Range(last.report2.pages) # {}
    /\ Len(report.pages) = 2
    /\ Len(report.issues) >= 2

\* ---- C24
\* the characters of the strings the table sorts by, and their code points
CharsOf(text) ==
    CASE text = "" -> <<>>
      [] text = "R&D" -> <<"R", "&", "D">>
      [] text = "1.4.10" -> <<"1", ".", "4", ".", "1", "0">>
      [] text = "1.4.2" -> <<"1", ".", "4", ".", "2">>
CodePoint(char) ==
    CASE char = "&" -> 38 [] char = "." -> 46 [] char = "0" -> 48 [] char = "1" -> 49
      [] char = "2" -> 50 [] char = "4" -> 52 [] char = "D" -> 68 [] char = "R" -> 82
\* a comes before b, or is b, in the lexical order of strings
LexicalOrder(a, b) ==
    LET s == CharsOf(a)
        t == CharsOf(b)
        differ == {i \in 1..Len(s) : i > Len(t) \/ s[i] # t[i]}
    IN  IF differ = {} THEN TRUE
        ELSE LET i == CHOOSE i \in differ : \A j \in differ : i <= j
             IN  i <= Len(t) /\ CodePoint(s[i]) < CodePoint(t[i])
\* two rows that follow each other are in the order of the key chosen
RowsInOrder(a, b, by) ==
    CASE by = "page" -> LexicalOrder(a.page, b.page)
      [] by = "criteria" -> LexicalOrder(a.criterionNumber, b.criterionNumber)
      [] by = "priority" -> a.priority >= b.priority
\* how often a sequence holds a value
TimesIn(list, value) == Cardinality({k \in 1..Len(list) : list[k] = value})
\* the issues of the prop that pass the filter
Shown == {issue \in Range(issuesProp) : ~showOnlyNeedsReview \/ needsReview(issue)}

\* C24: the table shows every issue of the prop that passes the needs-review
\* filter (every issue when it is off) as often as the prop holds it and no
\* other, in the order of the key chosen: page or criterion number ascending
\* in the lexical order of strings (in which 1.4.10 comes before 1.4.2), or
\* priority descending; and a change of the sort order or of the filter
\* leaves the array of the prop, and the report, as they were
C24_SortedIssues ==
    /\ [](/\ Range(sortedIssues) = Shown
          /\ \A issue \in Shown : TimesIn(sortedIssues, issue) = TimesIn(issuesProp, issue)
          /\ \A k \in 1..(Len(sortedIssues) - 1) :
               RowsInOrder(sortedIssues[k], sortedIssues[k + 1], tableSortBy))
    /\ [][(tableSortBy' # tableSortBy \/ showOnlyNeedsReview' # showOnlyNeedsReview) =>
              issuesProp' = issuesProp /\ report' = report]_vars

\* the table shows, by criterion, two of three issues given out of order,
\* the third filtered out
C24_Witness ==
    /\ showOnlyNeedsReview
    /\ tableSortBy = "criteria"
    /\ Len(issuesProp) = 3
    /\ Len(sortedIssues) = 2
    /\ sortedIssues[1] = issuesProp[3]
    /\ sortedIssues[1].criterionNumber # sortedIssues[2].criterionNumber

\* ---- C25
\* C25: until the initial load has completed (hasLoadedInitially is true) the
\* auto-save effect has created no transaction, and no step taken before
\* then removes a report the store holds
C25_NoSaveBeforeLoad ==
    /\ [](~hasLoadedInitially => requests = <<>>)
    /\ [][(~hasLoadedInitially /\ idb # undefined) => idb' # undefined]_vars

\* the mount is about to end with a report in the store that was there at the
\* start, and another one in memory that the user made meanwhile
C25_Witness ==
    /\ mount = "finally"
    /\ ~hasLoadedInitially
    /\ idb # undefined
    /\ profile.idb # undefined
    /\ report # null
    /\ report # idb

\* ---- C26
\* C26: after the initial load failed (the store could not be opened or
\* read), and as long as the user has changed nothing, the slot holds the
\* report it held before the application started
C26_FailedLoadKeepsStore ==
    (loadFailed /\ profile.localStore = undefined /\ steps = 0) => idb = profile.idb

\* ---- C30
\* what the slot holds when it holds the report in memory
Persisted(r) == IF r = null THEN undefined ELSE plain(r)

\* no transaction is pending and the effect has run for the latest change
Settled == hasLoadedInitially /\ ~EffectPending /\ requests = <<>>

\* C30: once the initial load is over and every pending transaction has
\* completed, none of them having failed, the slot holds the report in
\* memory, whatever changes were made and however their saves overlapped
C30_LatestSaved == (Settled /\ ~writeFailed) => idb = Persisted(report)

\* two saves were pending at once, both have completed, and the slot holds
\* the report of the later one
C30_Witness ==
    /\ Settled
    /\ ~writeFailed
    /\ overlapped
    /\ report # null
    /\ Len(report.issues) >= 1
    /\ idb = Persisted(report)

\* ---- C27
\* the step is a submit of the dialog's form
Submitted == modal # null /\ modal' # null /\ ~modal.isCreating /\ modal'.isCreating

\* the requests awaiting a response that were sent for an issue
CallsFor(pending, issueId) == {k \in 1..Len(pending) : pending[k].issueId = issueId}

\* C27: every submit of the filing dialog sends one more create request at
\* once, whatever requests for the same issue still await their response,
\* and the tracker handles each request it receives on its own
C27_NoDedup ==
    /\ [][Submitted =>
            /\ Len(calls') = Len(calls) + 1
            /\ calls'[Len(calls')].state = "sent"
            /\ calls'[Len(calls')].issueId = modal.issue.id
            /\ SubSeq(calls', 1, Len(calls)) = calls]_vars

\* two requests for one issue await their response, and the tracker has
\* created a ticket for each
C27_Witness ==
    /\ Len(calls) = 2
    /\ calls[1].issueId = calls[2].issueId
    /\ calls[1].state = "created" /\ calls[2].state = "created"
    /\ Len(tracker) = 2
    /\ tracker[1].key # tracker[2].key

\* ---- C28
\* the step is the failure of the k-th request awaiting its response: the
\* request is gone and the tracker has created nothing for it
FailureOf(k) ==
    /\ k \in 1..Len(calls)
    /\ calls[k].state = "sent"
    /\ calls' = SubSeq(calls, 1, k - 1) \o SubSeq(calls, k + 1, Len(calls))
    /\ tracker' = tracker

\* the messages createIssue's Error can carry
Messages == {failureMessage(failure) : failure \in Failures}

CreatedFor(m) == {k \in 1..Len(tracker) : tracker[k].instance = m.instance}

\* a ticket is recorded on the issue of a report
Recorded(r, issueId, key) ==
    /\ r # null
    /\ \E k \in 1..Len(r.issues) :
         /\ r.issues[k].id = issueId
         /\ "jiraTicketKey" \in DOMAIN r.issues[k]
         /\ r.issues[k].jiraTicketKey = key
         /\ Truthy(r.issues[k], "jiraTicketUrl")

\* C29: when the tracker has created a ticket for the dialog's request, the
\* dialog closes only by a step that records the ticket's key and URL on the
\* issue
C29_ClosedBySuccess ==
    [][(modal # null /\ CreatedFor(modal) # {} /\ modal' = null) =>
         \E k \in CreatedFor(modal) : Recorded(report', modal.issue.id, tracker[k].key)]_vars

\* once the response has arrived and the dialog shows the success state, it
\* closes only by recording the ticket on the issue
C29_SuccessStateRecords ==
    [][(modal # null /\ modal.creationResult = "success" /\ modal' = null) =>
         Recorded(report', modal.issue.id, modal.createdTicket.key)]_vars

====
